---- MODULE Spec2Model ----
(***************************************************************************)
(* The route-planning wizard of the events map (EventRoutePanel) together  *)
(* with the component that renders it and the three asynchronous services   *)
(* it calls (browser geolocation, /api/geocode, /api/directions).           *)
(*                                                                          *)
(* Every React state variable of the panel is a variable of the model, each *)
(* handler and each effect is one action, and a request in flight is a      *)
(* record holding what the handler's closure captured when it was issued.   *)
(***************************************************************************)
EXTENDS Integers, Sequences, FiniteSets, TLC

VARIABLES
    \* props, owned by the rendering component
    isOpen, events, userLocation, currentRouteEvents, currentRouteSummary,
    \* useState / useRef of EventRoutePanel
    step, startLocation, isGettingLocation, locationError, addressInput,
    isGeocodingAddress, nearbyEvents, selectedEventIds,
    transportMode, isGeneratingRoute, routeError, routeSummary, prevEventsRef,
    \* the environment: the requests in flight
    geoReqs, geocodeReqs, dirReqs,
    \* history: the last step taken, the route on screen when the panel was closed,
    \* the requests and the date changes the behaviour may still make
    last, closedView, budget,
    \* a server endpoint: the request it is answering, the calls it made to the
    \* mapping provider for it, and its response
    apiRequest, apiFetches, apiResponse,
    \* a function of the map pages: its arguments and what it returned
    call, result,
    \* the server: the database with the roles of the users, and the calls it is
    \* serving with what each has read and returned so far
    db, tasks

parentVars == <<isOpen, events, userLocation, currentRouteEvents, currentRouteSummary>>
panelVars == <<step, startLocation, isGettingLocation, locationError, addressInput,
               isGeocodingAddress, nearbyEvents, selectedEventIds,
               transportMode, isGeneratingRoute, routeError, routeSummary, prevEventsRef>>
envVars == <<geoReqs, geocodeReqs, dirReqs>>
histVars == <<last, closedView, budget>>
wizardVars == <<parentVars, panelVars, envVars, histVars>>
apiVars == <<apiRequest, apiFetches, apiResponse>>
fnVars == <<call, result>>
srvVars == <<db, tasks>>
vars == <<wizardVars, apiVars, fnVars, srvVars>>

----------------------------------------------------------------------------
(* Bounds of the model *)

\* requests of each kind issued in one behaviour, and changes of the date filter
MaxGeolocationRequests == 1
MaxGeocodeRequests == 1
MaxDirectionsRequests == 1
MaxEventChanges == 1

\* findNearestEvents(start, count = 10)
NearbyCount == 10

----------------------------------------------------------------------------
(* Values *)

\* `T | null`
Null == <<>>
Some(x) == <<x>>
Get(o) == o[1]

Min(a, b) == IF a < b THEN a ELSE b

\* coordinates, in hundredths of a degree
PA == [lng |-> -7864, lat |-> 3578]
PB == [lng |-> -7860, lat |-> 3580]
PC == [lng |-> -7850, lat |-> 3570]
PD == [lng |-> -7870, lat |-> 3590]
Points == <<PA, PB, PC, PD>>

\* what the browser's geolocation and the geocode endpoint can answer
GeoPositions == {PA}
GeocodeResults == {PC}

Ev(i, p) == [id |-> i, latitude |-> p.lat, longitude |-> p.lng]

\* the event lists the date filter can hand to the panel
EventsNone == <<>>
EventsFew == <<Ev(1, PC), Ev(2, PB), Ev(3, PB)>>
EventsMany == <<Ev(11, PC), Ev(12, PB), Ev(13, PD), Ev(14, PB), Ev(15, PC),
                Ev(16, PD), Ev(17, PB), Ev(18, PB), Ev(19, PC), Ev(20, PD),
                Ev(21, PB)>>
EventLists == {EventsNone, EventsFew, EventsMany}

\* the checkboxes the user clicks
ToggledIds == {1, 2, 11}

AddressInputs == {<<>>, <<"a", " ">>}
TransportModes == {"walking", "cycling", "driving"}
\* the modes the user clicks
PickedModes == {"walking", "driving"}

\* GeolocationPositionError.code
PERMISSION_DENIED == 1
POSITION_UNAVAILABLE == 2
TIMEOUT == 3
GeoErrorCodes == {PERMISSION_DENIED, POSITION_UNAVAILABLE, TIMEOUT}

\* `data.error` of an error answer of an endpoint: absent, or the endpoint's message
GeocodeErrors == {Null, Some("Address not found")}
DirectionsErrors == {Null, Some("No route found")}

\* the directions provider's primary route for a request of n coordinates: one of
\* two alternatives k, with n - 1 legs
DirectionsRoute(k, n) ==
    [distance |-> k * 1000 * (n - 1), duration |-> k * 600 * (n - 1),
     legs |-> [i \in 1..(n - 1) |-> [distance |-> k * 1000, duration |-> k * 600]]]
RouteAlternatives == {1, 2}

----------------------------------------------------------------------------
(* Pure functions of the panel *)

\* R * c of the Haversine formula for the coordinates of the model, in metres
HaversineMetres ==
    << <<    0,  4238, 15453, 14398>>,
       << 4238,     0, 14321, 14313>>,
       <<15453, 14321,     0, 28634>>,
       <<14398, 14313, 28634,     0>> >>

PointIndex(lat, lon) == CHOOSE i \in 1..Len(Points) : Points[i] = [lng |-> lon, lat |-> lat]

getDistance(lat1, lon1, lat2, lon2) ==
    HaversineMetres[PointIndex(lat1, lon1)][PointIndex(lat2, lon2)]

\* Array.prototype.sort((a, b) => a.distance - b.distance): stable, ascending
RECURSIVE InsertByDistance(_, _)
InsertByDistance(sorted, e) ==
    IF sorted = <<>> THEN <<e>>
    ELSE IF Head(sorted).distance <= e.distance
         THEN <<Head(sorted)>> \o InsertByDistance(Tail(sorted), e)
         ELSE <<e>> \o sorted

RECURSIVE SortByDistance(_)
SortByDistance(s) ==
    IF s = <<>> THEN <<>>
    ELSE InsertByDistance(SortByDistance(SubSeq(s, 1, Len(s) - 1)), s[Len(s)])

Slice(s, count) == SubSeq(s, 1, Min(count, Len(s)))

findNearestEvents(evs, start, count) ==
    LET eventsWithDistance ==
            [i \in 1..Len(evs) |->
                [id |-> evs[i].id, latitude |-> evs[i].latitude,
                 longitude |-> evs[i].longitude,
                 distance |-> getDistance(start.lat, start.lng,
                                          evs[i].latitude, evs[i].longitude)]]
    IN  Slice(SortByDistance(eventsWithDistance), count)

\* the scan of `remaining` keeping the last of the nearest ones
RECURSIVE NearestIdxLastOnTie(_, _, _, _)
NearestIdxLastOnTie(remaining, currentPos, i, best) ==
    IF i > Len(remaining) THEN best
    ELSE LET dist == getDistance(currentPos.lat, currentPos.lng,
                                 remaining[i].latitude, remaining[i].longitude)
             bestDist == getDistance(currentPos.lat, currentPos.lng,
                                     remaining[best].latitude, remaining[best].longitude)
         IN  NearestIdxLastOnTie(remaining, currentPos, i + 1,
                                 IF dist <= bestDist THEN i ELSE best)

\* index of the nearest of `remaining` to currentPos: the first one on a tie
RECURSIVE NearestIdx(_, _, _, _)
NearestIdx(remaining, currentPos, i, best) ==
    IF i > Len(remaining) THEN best
    ELSE LET dist == getDistance(currentPos.lat, currentPos.lng,
                                 remaining[i].latitude, remaining[i].longitude)
             bestDist == getDistance(currentPos.lat, currentPos.lng,
                                     remaining[best].latitude, remaining[best].longitude)
         IN  NearestIdx(remaining, currentPos, i + 1, IF dist < bestDist THEN i ELSE best)

Splice(s, i) == SubSeq(s, 1, i - 1) \o SubSeq(s, i + 1, Len(s))

RECURSIVE GreedyOrder(_, _, _)
GreedyOrder(currentPos, remaining, ordered) ==
    IF remaining = <<>> THEN ordered
    ELSE LET nearestIdx == NearestIdx(remaining, currentPos, 1, 1)
             nearest == remaining[nearestIdx]
         IN  GreedyOrder([lng |-> nearest.longitude, lat |-> nearest.latitude],
                         Splice(remaining, nearestIdx), Append(ordered, nearest))

orderEventsByProximity(start, selectedEvents) ==
    IF selectedEvents = <<>> THEN <<>> ELSE GreedyOrder(start, selectedEvents, <<>>)

\* events.map(e => e.id).sort().join(','): the ids in ascending order; '' is <<>>
RECURSIVE SortedIds(_)
SortedIds(ids) ==
    IF ids = {} THEN <<>>
    ELSE LET m == CHOOSE x \in ids : \A y \in ids : x <= y
         IN  <<m>> \o SortedIds(ids \ {m})

eventsHash(evs) == SortedIds({evs[i].id : i \in 1..Len(evs)})

IdsOf(s) == {s[i].id : i \in 1..Len(s)}

\* String.prototype.trim over the characters of the model
RECURSIVE TrimLeft(_)
TrimLeft(s) == IF s # <<>> /\ Head(s) = " " THEN TrimLeft(Tail(s)) ELSE s

RECURSIVE TrimRight(_)
TrimRight(s) ==
    IF s # <<>> /\ s[Len(s)] = " " THEN TrimRight(SubSeq(s, 1, Len(s) - 1)) ELSE s

Trim(s) == TrimRight(TrimLeft(s))

----------------------------------------------------------------------------
(* What the panel renders *)

selectedCount == Cardinality(selectedEventIds)

\* the whole pool, selected or not
WholePool(pool, ids) == pool

SelectedOf(pool, ids) == SelectSeq(pool, LAMBDA e : e.id \in ids)

\* the route step is rendered only with a summary to show
RouteStepRendered ==
    isOpen /\ step = "route" /\ (currentRouteSummary # Null \/ routeSummary # Null)

ShownSummary == IF currentRouteSummary # Null THEN currentRouteSummary ELSE routeSummary

ShownRouteEvents ==
    IF Len(currentRouteEvents) > 0 THEN currentRouteEvents
    ELSE SelectedOf(nearbyEvents, selectedEventIds)

\* the handlers wired to the buttons of the route step
RouteStepButtons == {"handleClearRoute", "handleClose"}

\* a Use My Location button that stays usable while the request is pending
UseMyLocationNeverDisabled == FALSE

\* a Next button that only asks for a non-empty selection
EventsNextDisabledWhenEmpty == selectedCount < 1

UseMyLocationDisabled == isGettingLocation
FindLocationDisabled == isGeocodingAddress \/ Trim(addressInput) = <<>>
EventsNextDisabled == selectedCount < 2
GenerateRouteDisabled == isGeneratingRoute

----------------------------------------------------------------------------
(* History *)

Kinds == {"geolocation", "geocode", "directions"}

IssuingStep(k) == IF k = "directions" THEN "transport" ELSE "location"

\* a request in flight is stale when its context has changed since it was issued:
\* the wizard is not on the step that issued it, the route was cleared meanwhile, or
\* the event set is another one
Stale(req, k) ==
    \/ step # IssuingStep(k)
    \/ req.cleared
    \/ IdsOf(req.events) # IdsOf(events)

Cleared(reqs) == [i \in DOMAIN reqs |-> [reqs[i] EXCEPT !.cleared = TRUE]]

Settled(reqs, i) == Splice(reqs, i)

\* a step of the wizard; the endpoints and the map pages are other programs
Did(op) == last' = op /\ UNCHANGED <<apiVars, fnVars, srvVars>>

\* the budget bounds the requests issued one after another; while a request of the
\* kind is in flight only the trigger's own guard stands between the user and a second one
MayIssue(k, reqs) == budget[k] > 0 \/ reqs # <<>>

Spent(k) == [budget EXCEPT ![k] = IF @ > 0 THEN @ - 1 ELSE 0]

----------------------------------------------------------------------------
(* The rendering component: it owns the props of the panel *)

onClose == isOpen' = FALSE

onRouteGenerated(orderedEvents, totalDistance, totalDuration, legs) ==
    /\ currentRouteEvents' = orderedEvents
    /\ currentRouteSummary' =
           Some([distance |-> totalDistance, duration |-> totalDuration, legs |-> legs])

onRouteClear ==
    /\ currentRouteEvents' = <<>>
    /\ currentRouteSummary' = Null

onUserLocationObtained(location) == userLocation' = Some(location)

----------------------------------------------------------------------------
(* Effects of the panel *)

\* "Sync step when panel opens with existing route"
SyncStep(s, open, routeEvents, summary) ==
    IF open /\ Len(routeEvents) > 0 /\ summary # Null THEN "route" ELSE s

\* "Reset panel state when events change"
EventsChanged(newEvents) == prevEventsRef # <<>> /\ prevEventsRef # eventsHash(newEvents)

ResetOnEventsChange(newEvents) ==
    /\ IF EventsChanged(newEvents)
       THEN /\ step' = "location"
            /\ nearbyEvents' = <<>>
            /\ selectedEventIds' = {}
            /\ routeSummary' = Null
               ELSE UNCHANGED <<step, nearbyEvents, selectedEventIds, routeSummary>>
    /\ prevEventsRef' = eventsHash(newEvents)

----------------------------------------------------------------------------
(* Initial state: the panel is mounted closed, without a route *)

Mounted ==
    /\ isOpen = FALSE
    /\ events \in EventLists
    /\ userLocation = Null
    /\ currentRouteEvents = <<>>
    /\ currentRouteSummary = Null
    /\ step = (IF Len(currentRouteEvents) > 0 /\ currentRouteSummary # Null
               THEN "route" ELSE "location")
    /\ startLocation = (IF userLocation # Null
                        THEN Some([lng |-> Get(userLocation).longitude,
                                   lat |-> Get(userLocation).latitude])
                        ELSE Null)
    /\ isGettingLocation = FALSE
    /\ locationError = Null
    /\ addressInput = <<>>
    /\ isGeocodingAddress = FALSE
    /\ nearbyEvents = <<>>
    /\ selectedEventIds = {}
    /\ transportMode = "driving"
    /\ isGeneratingRoute = FALSE
    /\ routeError = Null
    /\ routeSummary = Null
    /\ prevEventsRef = eventsHash(events)
    /\ geoReqs = <<>>
    /\ geocodeReqs = <<>>
    /\ dirReqs = <<>>
    /\ last = "mount"
    /\ closedView = Null
    /\ apiRequest = Null /\ apiFetches = <<>> /\ apiResponse = Null

\* no function of the map pages is being applied
NoCall == call = Null /\ result = Null

\* the server is another program: nothing stored, nothing being served
ServerAtRest == db = Null /\ tasks = <<>>

Init ==
    /\ Mounted
    /\ NoCall
    /\ ServerAtRest
    /\ budget = [geolocation |-> MaxGeolocationRequests, geocode |-> MaxGeocodeRequests,
                 directions |-> MaxDirectionsRequests, changes |-> MaxEventChanges]

----------------------------------------------------------------------------
(* Steps of the rendering component *)

\* the route-planning control of the map opens the panel; the sync effect runs
OpenPanel ==
    /\ ~isOpen
    /\ isOpen' = TRUE
    /\ step' = SyncStep(step, TRUE, currentRouteEvents, currentRouteSummary)
    /\ closedView' = Null
    /\ UNCHANGED budget
    /\ UNCHANGED <<events, userLocation, currentRouteEvents, currentRouteSummary>>
    /\ UNCHANGED <<startLocation, isGettingLocation, locationError, addressInput,
                   isGeocodingAddress, nearbyEvents, selectedEventIds,
                   transportMode, isGeneratingRoute, routeError, routeSummary,
                   prevEventsRef>>
    /\ UNCHANGED <<geoReqs, geocodeReqs, dirReqs>>
    /\ Did("open")

\* the date filter hands the panel another event list; the reset effect runs
ChangeEvents(newEvents) ==
    /\ newEvents # events
    /\ events' = newEvents
    /\ ResetOnEventsChange(newEvents)
    /\ closedView' = IF closedView # Null /\ eventsHash(newEvents) # eventsHash(events)
                     THEN Some([Get(closedView) EXCEPT !.eventsChanged = TRUE])
                     ELSE closedView
    /\ budget.changes > 0
    /\ budget' = [budget EXCEPT !.changes = @ - 1]
    /\ UNCHANGED <<isOpen, userLocation, currentRouteEvents, currentRouteSummary>>
    /\ UNCHANGED <<startLocation, isGettingLocation, locationError, addressInput,
                   isGeocodingAddress, transportMode, isGeneratingRoute,
                   routeError>>
    /\ UNCHANGED <<geoReqs, geocodeReqs, dirReqs>>
    /\ Did("events")

----------------------------------------------------------------------------
(* Handlers of the panel *)

\* "Just close the panel (preserve route if it exists)"
handleClose ==
    /\ isOpen
    /\ onClose
    /\ step' = SyncStep(step, FALSE, currentRouteEvents, currentRouteSummary)
    /\ closedView' = IF step = "route"
                     THEN Some([summary |-> ShownSummary, routeEvents |-> ShownRouteEvents,
                                eventsChanged |-> FALSE])
                     ELSE Null
    /\ UNCHANGED budget
    /\ UNCHANGED <<events, userLocation, currentRouteEvents, currentRouteSummary>>
    /\ UNCHANGED <<startLocation, isGettingLocation, locationError, addressInput,
                   isGeocodingAddress, nearbyEvents, selectedEventIds,
                   transportMode, isGeneratingRoute, routeError, routeSummary,
                   prevEventsRef>>
    /\ UNCHANGED <<geoReqs, geocodeReqs, dirReqs>>
    /\ Did("handleClose")

\* Use My Location: the request is issued, or the browser has no geolocation
\* (hasGeolocation is `navigator.geolocation`, read at the call)
handleUseMyLocation(hasGeolocation) ==
    /\ isOpen /\ step = "location" /\ ~UseMyLocationDisabled
    /\ MayIssue("geolocation", geoReqs)
    /\ budget' = Spent("geolocation")
    /\ UNCHANGED <<parentVars, step, startLocation, addressInput, 
                   isGeocodingAddress, nearbyEvents, selectedEventIds, transportMode,
                   isGeneratingRoute, routeError, routeSummary, prevEventsRef, closedView>>
    /\ IF ~hasGeolocation
       THEN /\ locationError' = Some("Geolocation is not supported by your browser")
            /\ isGettingLocation' = FALSE
            /\ UNCHANGED <<geoReqs, geocodeReqs, dirReqs>>
       ELSE /\ isGettingLocation' = TRUE
            /\ locationError' = Null
            /\ geoReqs' = Append(geoReqs, [events |-> events, cleared |-> FALSE])
            /\ UNCHANGED <<geocodeReqs, dirReqs>>
    /\ Did("handleUseMyLocation")

\* getCurrentPosition's success callback
GeolocationSuccess(i, position) ==
    /\ i \in DOMAIN geoReqs
    /\ LET loc == [lng |-> position.lng, lat |-> position.lat]
           nearby == findNearestEvents(geoReqs[i].events, loc, NearbyCount)
       IN  /\ startLocation' = Some(loc)
           /\ isGettingLocation' = FALSE
           /\ onUserLocationObtained([longitude |-> loc.lng, latitude |-> loc.lat])
           /\ nearbyEvents' = nearby
           /\ selectedEventIds' = IdsOf(nearby)
           /\ step' = "events"
    /\ UNCHANGED <<isOpen, events, currentRouteEvents, currentRouteSummary>>
    /\ UNCHANGED <<locationError, addressInput, isGeocodingAddress,
                   transportMode, isGeneratingRoute, routeError, routeSummary,
                   prevEventsRef, closedView, budget>>
    /\ geoReqs' = Settled(geoReqs, i)
    /\ UNCHANGED <<geocodeReqs, dirReqs>>
    /\ Did("geolocationSuccess")

\* a switch whose first case lacks its break
GeolocationErrorMessageFallingThrough(code) ==
    CASE code = PERMISSION_DENIED ->
            "Location unavailable. Please enter an address instead."
      [] code = POSITION_UNAVAILABLE ->
            "Location unavailable. Please enter an address instead."
      [] code = TIMEOUT ->
            "Location request timed out. Please try again or enter an address."
      [] OTHER -> "Unable to get location. Please enter an address instead."

\* switch (error.code)
GeolocationErrorMessage(code) ==
    CASE code = PERMISSION_DENIED ->
            "Location permission denied. Please enter an address instead."
      [] code = POSITION_UNAVAILABLE ->
            "Location unavailable. Please enter an address instead."
      [] code = TIMEOUT ->
            "Location request timed out. Please try again or enter an address."
      [] OTHER -> "Unable to get location. Please enter an address instead."

\* getCurrentPosition's error callback
GeolocationError(i, code) ==
    /\ i \in DOMAIN geoReqs
    /\ isGettingLocation' = FALSE
    /\ locationError' = Some(GeolocationErrorMessage(code))
    /\ UNCHANGED <<parentVars, step, startLocation, addressInput, 
                   isGeocodingAddress, nearbyEvents, selectedEventIds, transportMode,
                   isGeneratingRoute, routeError, routeSummary, prevEventsRef, closedView, budget>>
    /\ geoReqs' = Settled(geoReqs, i)
    /\ UNCHANGED <<geocodeReqs, dirReqs>>
    /\ Did("geolocationError")

setAddressInput(value) ==
    /\ isOpen /\ step = "location"
    /\ value # addressInput
    /\ addressInput' = value
    /\ UNCHANGED <<parentVars, step, startLocation, isGettingLocation, locationError,
                   isGeocodingAddress, nearbyEvents, selectedEventIds,
                   transportMode, isGeneratingRoute, routeError, routeSummary,
                   prevEventsRef, closedView, budget>>
    /\ UNCHANGED <<geoReqs, geocodeReqs, dirReqs>>
    /\ Did("input")

\* Find Location: the geocode request is issued
handleLookupAddress ==
    /\ isOpen /\ step = "location" /\ ~FindLocationDisabled
    /\ MayIssue("geocode", geocodeReqs)
    /\ budget' = Spent("geocode")
    /\ UNCHANGED <<parentVars, step, startLocation, isGettingLocation, addressInput,
                   nearbyEvents, selectedEventIds, transportMode,
                   isGeneratingRoute, routeError, routeSummary, prevEventsRef, closedView>>
    /\ IF Trim(addressInput) = <<>>
       THEN /\ locationError' = Some("Please enter an address")
            /\ UNCHANGED isGeocodingAddress
            /\ UNCHANGED <<geoReqs, geocodeReqs, dirReqs>>
       ELSE /\ isGeocodingAddress' = TRUE
            /\ locationError' = Null
            /\ geocodeReqs' = Append(geocodeReqs,
                                      [events |-> events, address |-> Trim(addressInput),
                                       cleared |-> FALSE])
            /\ UNCHANGED <<geoReqs, dirReqs>>
    /\ Did("handleLookupAddress")

\* /api/geocode answered ok with a coordinate
GeocodeOk(i, data) ==
    /\ i \in DOMAIN geocodeReqs
    /\ LET loc == [lng |-> data.longitude, lat |-> data.latitude]
           nearby == findNearestEvents(geocodeReqs[i].events, loc, NearbyCount)
       IN  /\ startLocation' = Some(loc)
           /\ isGeocodingAddress' = FALSE
           /\ nearbyEvents' = nearby
           /\ selectedEventIds' = IdsOf(nearby)
           /\ step' = "events"
    /\ UNCHANGED <<parentVars, isGettingLocation, locationError, addressInput,
                   transportMode, isGeneratingRoute, routeError,
                   routeSummary, prevEventsRef, closedView, budget>>
    /\ geocodeReqs' = Settled(geocodeReqs, i)
    /\ UNCHANGED <<geoReqs, dirReqs>>
    /\ Did("geocodeOk")

\* /api/geocode answered with an error status
GeocodeNotOk(i, error) ==
    /\ i \in DOMAIN geocodeReqs
    /\ locationError' = (IF error # Null THEN error ELSE Some("Failed to find address"))
    /\ isGeocodingAddress' = FALSE
    /\ UNCHANGED <<parentVars, step, startLocation, isGettingLocation, addressInput,
                   nearbyEvents, selectedEventIds, transportMode,
                   isGeneratingRoute, routeError, routeSummary, prevEventsRef, closedView, budget>>
    /\ geocodeReqs' = Settled(geocodeReqs, i)
    /\ UNCHANGED <<geoReqs, dirReqs>>
    /\ Did("geocodeNotOk")

\* a catch block that shows the error and leaves the lookup pending
GeocodeThrowsStillPending(i) ==
    /\ i \in DOMAIN geocodeReqs
    /\ locationError' = Some("Failed to lookup address")
    /\ UNCHANGED <<parentVars, step, startLocation, isGettingLocation, addressInput,
                   isGeocodingAddress, nearbyEvents, selectedEventIds, transportMode,
                   isGeneratingRoute, routeError, routeSummary, prevEventsRef, closedView, budget>>
    /\ geocodeReqs' = Settled(geocodeReqs, i)
    /\ UNCHANGED <<geoReqs, dirReqs>>
    /\ Did("geocodeThrows")

\* fetch or response.json() threw
GeocodeThrows(i) ==
    /\ i \in DOMAIN geocodeReqs
    /\ locationError' = Some("Failed to lookup address")
    /\ isGeocodingAddress' = FALSE
    /\ UNCHANGED <<parentVars, step, startLocation, isGettingLocation, addressInput,
                   nearbyEvents, selectedEventIds, transportMode,
                   isGeneratingRoute, routeError, routeSummary, prevEventsRef, closedView, budget>>
    /\ geocodeReqs' = Settled(geocodeReqs, i)
    /\ UNCHANGED <<geoReqs, dirReqs>>
    /\ Did("geocodeThrows")

handleToggleEvent(eventId) ==
    /\ isOpen /\ step = "events"
    /\ eventId \in IdsOf(nearbyEvents)
    /\ selectedEventIds' = IF eventId \in selectedEventIds
                           THEN selectedEventIds \ {eventId}
                           ELSE selectedEventIds \cup {eventId}
    /\ UNCHANGED <<parentVars, step, startLocation, isGettingLocation, locationError,
                   addressInput, isGeocodingAddress, nearbyEvents,
                   transportMode, isGeneratingRoute, routeError, routeSummary,
                   prevEventsRef, closedView, budget>>
    /\ UNCHANGED <<geoReqs, geocodeReqs, dirReqs>>
    /\ Did("input")

\* a button that only sets the step
GoToStep(from, to, op) ==
    /\ isOpen /\ step = from
    /\ step' = to
    /\ UNCHANGED <<parentVars, startLocation, isGettingLocation, locationError,
                   addressInput, isGeocodingAddress, nearbyEvents,
                   selectedEventIds, transportMode, isGeneratingRoute, routeError,
                   routeSummary, prevEventsRef, closedView, budget>>
    /\ UNCHANGED <<geoReqs, geocodeReqs, dirReqs>>
    /\ Did(op)

EventsBack == GoToStep("events", "location", "eventsBack")

EventsNext == ~EventsNextDisabled /\ GoToStep("events", "transport", "eventsNext")

TransportBack == GoToStep("transport", "events", "transportBack")

setTransportMode(mode) ==
    /\ isOpen /\ step = "transport"
    /\ mode # transportMode
    /\ transportMode' = mode
    /\ UNCHANGED <<parentVars, step, startLocation, isGettingLocation, locationError,
                   addressInput, isGeocodingAddress, nearbyEvents,
                   selectedEventIds, isGeneratingRoute, routeError, routeSummary,
                   prevEventsRef, closedView, budget>>
    /\ UNCHANGED <<geoReqs, geocodeReqs, dirReqs>>
    /\ Did("input")

\* Generate Route: orders the selected events and issues the directions request
handleGenerateRoute ==
    /\ isOpen /\ step = "transport" /\ ~GenerateRouteDisabled
    /\ MayIssue("directions", dirReqs)
    /\ budget' = Spent("directions")
    /\ UNCHANGED <<parentVars, step, startLocation, isGettingLocation, locationError,
                   addressInput, isGeocodingAddress, nearbyEvents,
                   selectedEventIds, transportMode, routeSummary, prevEventsRef, closedView>>
    /\ IF startLocation = Null \/ Cardinality(selectedEventIds) < 2
       THEN /\ UNCHANGED <<isGeneratingRoute, routeError>>
            /\ UNCHANGED <<geoReqs, geocodeReqs, dirReqs>>
       ELSE LET selected == SelectedOf(nearbyEvents, selectedEventIds)
                ordered == orderEventsByProximity(Get(startLocation), selected)
                coordinates ==
                    <<Get(startLocation)>> \o
                    [i \in 1..Len(ordered) |->
                        [lng |-> ordered[i].longitude, lat |-> ordered[i].latitude]]
            IN  /\ isGeneratingRoute' = TRUE
                /\ routeError' = Null
                /\ dirReqs' = Append(dirReqs,
                                      [ordered |-> ordered, coordinates |-> coordinates,
                                       profile |-> transportMode, events |-> events,
                                       cleared |-> FALSE])
                /\ UNCHANGED <<geoReqs, geocodeReqs>>
    /\ Did("handleGenerateRoute")

\* /api/directions answered ok with routes: the first one is used
DirectionsOk(i, k) ==
    /\ i \in DOMAIN dirReqs
    /\ LET route == DirectionsRoute(k, Len(dirReqs[i].coordinates))
       IN  /\ routeSummary' = Some([distance |-> route.distance,
                                    duration |-> route.duration, legs |-> route.legs])
           /\ onRouteGenerated(dirReqs[i].ordered, route.distance, route.duration,
                               route.legs)
    /\ step' = SyncStep("route", isOpen, currentRouteEvents', currentRouteSummary')
    /\ isGeneratingRoute' = FALSE
    /\ UNCHANGED <<isOpen, events, userLocation>>
    /\ UNCHANGED <<startLocation, isGettingLocation, locationError, addressInput,
                   isGeocodingAddress, nearbyEvents, selectedEventIds,
                   transportMode, routeError, prevEventsRef,
                   closedView, budget>>
    /\ dirReqs' = Settled(dirReqs, i)
    /\ UNCHANGED <<geoReqs, geocodeReqs>>
    /\ Did("directionsOk")

\* an error branch that drops the message of the directions service
DirectionsNotOkGenericMessage(i, error) ==
    /\ i \in DOMAIN dirReqs
    /\ routeError' = Some("Failed to generate route")
    /\ isGeneratingRoute' = FALSE
    /\ UNCHANGED <<parentVars, step, startLocation, isGettingLocation, locationError,
                   addressInput, isGeocodingAddress, nearbyEvents,
                   selectedEventIds, transportMode, routeSummary, prevEventsRef, closedView, budget>>
    /\ dirReqs' = Settled(dirReqs, i)
    /\ UNCHANGED <<geoReqs, geocodeReqs>>
    /\ Did("directionsNotOk")

\* /api/directions answered with an error status, or without routes
DirectionsNotOk(i, error) ==
    /\ i \in DOMAIN dirReqs
    /\ routeError' = (IF error # Null THEN error ELSE Some("Failed to generate route"))
    /\ isGeneratingRoute' = FALSE
    /\ UNCHANGED <<parentVars, step, startLocation, isGettingLocation, locationError,
                   addressInput, isGeocodingAddress, nearbyEvents,
                   selectedEventIds, transportMode, routeSummary, prevEventsRef, closedView, budget>>
    /\ dirReqs' = Settled(dirReqs, i)
    /\ UNCHANGED <<geoReqs, geocodeReqs>>
    /\ Did("directionsNotOk")

\* fetch or response.json() threw
DirectionsThrows(i) ==
    /\ i \in DOMAIN dirReqs
    /\ routeError' = Some("Failed to generate route")
    /\ isGeneratingRoute' = FALSE
    /\ UNCHANGED <<parentVars, step, startLocation, isGettingLocation, locationError,
                   addressInput, isGeocodingAddress, nearbyEvents,
                   selectedEventIds, transportMode, routeSummary, prevEventsRef, closedView, budget>>
    /\ dirReqs' = Settled(dirReqs, i)
    /\ UNCHANGED <<geoReqs, geocodeReqs>>
    /\ Did("directionsThrows")

\* a Clear route that clears the route and stays on the route step
handleClearRouteStayingOnRoute ==
    /\ RouteStepRendered /\ "handleClearRoute" \in RouteStepButtons
    /\ onRouteClear
    /\ UNCHANGED step
    /\ startLocation' = (IF userLocation # Null
                         THEN Some([lng |-> Get(userLocation).longitude,
                                    lat |-> Get(userLocation).latitude])
                         ELSE Null)
    /\ locationError' = Null
    /\ addressInput' = <<>>
    /\ nearbyEvents' = <<>>
    /\ selectedEventIds' = {}
    /\ routeError' = Null
    /\ routeSummary' = Null
    /\ UNCHANGED <<isOpen, events, userLocation>>
    /\ UNCHANGED <<isGettingLocation, isGeocodingAddress, transportMode,
                   isGeneratingRoute, prevEventsRef, closedView, budget>>
    /\ geoReqs' = Cleared(geoReqs)
    /\ geocodeReqs' = Cleared(geocodeReqs)
    /\ dirReqs' = Cleared(dirReqs)
    /\ Did("handleClearRoute")

\* a Clear route that keeps the start coordinate of the cleared route
handleClearRouteKeepingStart ==
    /\ RouteStepRendered /\ "handleClearRoute" \in RouteStepButtons
    /\ onRouteClear
    /\ step' = "location"
    /\ UNCHANGED startLocation
    /\ locationError' = Null
    /\ addressInput' = <<>>
    /\ nearbyEvents' = <<>>
    /\ selectedEventIds' = {}
    /\ routeError' = Null
    /\ routeSummary' = Null
    /\ UNCHANGED <<isOpen, events, userLocation>>
    /\ UNCHANGED <<isGettingLocation, isGeocodingAddress, transportMode,
                   isGeneratingRoute, prevEventsRef, closedView, budget>>
    /\ geoReqs' = Cleared(geoReqs)
    /\ geocodeReqs' = Cleared(geocodeReqs)
    /\ dirReqs' = Cleared(dirReqs)
    /\ Did("handleClearRoute")

\* "Clear route and start over"
handleClearRoute ==
    /\ RouteStepRendered /\ "handleClearRoute" \in RouteStepButtons
    /\ onRouteClear
    /\ step' = "location"
    /\ startLocation' = (IF userLocation # Null
                         THEN Some([lng |-> Get(userLocation).longitude,
                                    lat |-> Get(userLocation).latitude])
                         ELSE Null)
    /\ locationError' = Null
    /\ addressInput' = <<>>
    /\ nearbyEvents' = <<>>
    /\ selectedEventIds' = {}
    /\ routeError' = Null
    /\ routeSummary' = Null
    /\ UNCHANGED <<isOpen, events, userLocation>>
    /\ UNCHANGED <<isGettingLocation, isGeocodingAddress, transportMode,
                   isGeneratingRoute, prevEventsRef, closedView, budget>>
    /\ geoReqs' = Cleared(geoReqs)
    /\ geocodeReqs' = Cleared(geocodeReqs)
    /\ dirReqs' = Cleared(dirReqs)
    /\ Did("handleClearRoute")

\* "Modify existing route (go back to events step)": defined by the panel, and wired
\* to a button only if the route step lists it
handleModifyRoute ==
    /\ RouteStepRendered /\ "handleModifyRoute" \in RouteStepButtons
    /\ step' = "events"
    /\ UNCHANGED <<parentVars, startLocation, isGettingLocation, locationError,
                   addressInput, isGeocodingAddress, nearbyEvents,
                   selectedEventIds, transportMode, isGeneratingRoute, routeError,
                   routeSummary, prevEventsRef, closedView, budget>>
    /\ UNCHANGED <<geoReqs, geocodeReqs, dirReqs>>
    /\ Did("handleModifyRoute")

----------------------------------------------------------------------------
(* The specification *)

Next ==
    \/ OpenPanel
    \/ \E newEvents \in EventLists : ChangeEvents(newEvents)
    \/ handleClose
    \/ \E hasGeolocation \in BOOLEAN : handleUseMyLocation(hasGeolocation)
    \/ \E i \in DOMAIN geoReqs, position \in GeoPositions : GeolocationSuccess(i, position)
    \/ \E i \in DOMAIN geoReqs, code \in GeoErrorCodes : GeolocationError(i, code)
    \/ \E value \in AddressInputs : setAddressInput(value)
    \/ handleLookupAddress
    \/ \E i \in DOMAIN geocodeReqs, loc \in GeocodeResults :
           GeocodeOk(i, [longitude |-> loc.lng, latitude |-> loc.lat])
    \/ \E i \in DOMAIN geocodeReqs, error \in GeocodeErrors : GeocodeNotOk(i, error)
    \/ \E i \in DOMAIN geocodeReqs : GeocodeThrows(i)
    \/ \E eventId \in ToggledIds : handleToggleEvent(eventId)
    \/ EventsBack
    \/ EventsNext
    \/ TransportBack
    \/ \E mode \in PickedModes : setTransportMode(mode)
    \/ handleGenerateRoute
    \/ \E i \in DOMAIN dirReqs, k \in RouteAlternatives : DirectionsOk(i, k)
    \/ \E i \in DOMAIN dirReqs, error \in DirectionsErrors : DirectionsNotOk(i, error)
    \/ \E i \in DOMAIN dirReqs : DirectionsThrows(i)
    \/ handleClearRoute

Spec == Init /\ [][Next]_vars

\* the same program over a non-empty event list, in a behaviour with one more
\* directions request
InitReopen ==
    /\ Mounted
    /\ NoCall
    /\ ServerAtRest
    /\ events = EventsFew
    /\ budget = [geolocation |-> MaxGeolocationRequests, geocode |-> MaxGeocodeRequests,
                 directions |-> MaxDirectionsRequests + 1, changes |-> MaxEventChanges]

SpecReopen == InitReopen /\ [][Next]_vars

----------------------------------------------------------------------------
(* The server endpoints /api/directions and /api/geocode *)

\* JSON values of a request body, by their typeof
JsNumber(n) == [t |-> "number", v |-> n]
JsString == [t |-> "string", v |-> 0]
JsUndefined == [t |-> "undefined", v |-> 0]
typeof(x) == x.t

\* one element of `coordinates`, in whole degrees; a JSON null is an element too
Coordinate(lng, lat) == [t |-> "object", lng |-> lng, lat |-> lat]
NullCoordinate == [t |-> "null", lng |-> JsUndefined, lat |-> JsUndefined]
GoodCoordinate == Coordinate(JsNumber(-78), JsNumber(35))

CoordinateVariants ==
    { GoodCoordinate,
      Coordinate(JsNumber(-180), JsNumber(-90)), Coordinate(JsNumber(180), JsNumber(90)),
      Coordinate(JsNumber(-181), JsNumber(35)), Coordinate(JsNumber(181), JsNumber(35)),
      Coordinate(JsNumber(-78), JsNumber(-91)), Coordinate(JsNumber(-78), JsNumber(95)),
      Coordinate(JsString, JsNumber(35)), Coordinate(JsNumber(-78), JsUndefined),
      NullCoordinate }

CoordinateCounts == {0, 1, 2, 3, 25, 26}

\* lists of good coordinates with one element, the first or the last, of any variant
CoordinateLists ==
    UNION { { [i \in 1..n |-> IF i = k THEN c ELSE GoodCoordinate] :
                  k \in {1, n}, c \in CoordinateVariants } : n \in CoordinateCounts }

\* body.coordinates: missing, not an array, or an array
CoordinatesValues ==
    { [t |-> "undefined", items |-> <<>>], [t |-> "string", items |-> <<>>] }
        \cup { [t |-> "array", items |-> l] : l \in CoordinateLists }

ProfileValues == {Null, Some("walking"), Some("cycling"), Some("driving"), Some("flying")}

\* the parsed body; Null when request.json() throws
DirectionsBodies ==
    {Null} \cup { Some([coordinates |-> c, profile |-> pr]) :
                      c \in CoordinatesValues, pr \in ProfileValues }

\* process.env.VITE_MAPBOX_TOKEN
MapboxTokens == {Null, Some("token")}

\* Response.json(body, {status})
JsonResponse(status, error, code, routes) ==
    [status |-> status, error |-> error, code |-> code, routes |-> routes, body |-> Null,
     uncaught |-> FALSE]

ErrorResponse(status, error) == JsonResponse(status, Some(error), Null, Null)

\* an exception the action does not catch: the framework answers with a server error
UncaughtError ==
    [status |-> 500, error |-> Some("Unexpected Server Error"), code |-> Null,
     routes |-> Null, body |-> Null, uncaught |-> TRUE]

validProfiles == {"walking", "cycling", "driving"}

\* a validation that forgets the upper bound of the latitude
RECURSIVE ValidateEachCoordinateBelowOnly(_)
ValidateEachCoordinateBelowOnly(coordinates) ==
    IF coordinates = <<>> THEN Null
    ELSE LET coord == Head(coordinates)
         IN  IF coord.t = "null" THEN Some(UncaughtError)
             ELSE IF typeof(coord.lng) # "number" \/ typeof(coord.lat) # "number"
             THEN Some(ErrorResponse(400, "Each coordinate must have lng and lat as numbers"))
             ELSE IF \/ coord.lng.v < -180 \/ coord.lng.v > 180
                     \/ coord.lat.v < -90
             THEN Some(ErrorResponse(400, "Coordinates out of valid range"))
             ELSE ValidateEachCoordinateBelowOnly(Tail(coordinates))

\* "Validate each coordinate": the response of the first coordinate that fails
RECURSIVE ValidateEachCoordinate(_)
ValidateEachCoordinate(coordinates) ==
    IF coordinates = <<>> THEN Null
    ELSE LET coord == Head(coordinates)
         IN  IF coord.t = "null" THEN Some(UncaughtError)
             ELSE IF typeof(coord.lng) # "number" \/ typeof(coord.lat) # "number"
             THEN Some(ErrorResponse(400, "Each coordinate must have lng and lat as numbers"))
             ELSE IF \/ coord.lng.v < -180 \/ coord.lng.v > 180
                     \/ coord.lat.v < -90 \/ coord.lat.v > 90
             THEN Some(ErrorResponse(400, "Coordinates out of valid range"))
             ELSE ValidateEachCoordinate(Tail(coordinates))

\* the action of /api/directions up to its call of fetch: the response it returns
\* before calling, or Null when it goes on to call the provider
DirectionsBeforeFetch(mapboxToken, body) ==
    IF mapboxToken = Null THEN Some(ErrorResponse(500, "Mapbox token not configured"))
    ELSE IF body = Null THEN Some(ErrorResponse(400, "Invalid JSON body"))
    ELSE LET coordinates == Get(body).coordinates
             profile == Get(body).profile
         IN  IF profile = Null \/ Get(profile) \notin validProfiles
             THEN Some(ErrorResponse(400, "Invalid profile. Must be walking, cycling, or driving"))
             ELSE IF coordinates.t # "array" \/ Len(coordinates.items) < 2
             THEN Some(ErrorResponse(400, "At least 2 coordinates are required"))
             ELSE IF Len(coordinates.items) > 25
             THEN Some(ErrorResponse(400, "Maximum 25 coordinates allowed"))
             ELSE ValidateEachCoordinate(coordinates.items)

\* the URL the action fetches
DirectionsUrl(mapboxToken, body) ==
    [api |-> "https://api.mapbox.com/directions/v5/mapbox",
     profile |-> Get(Get(body).profile),
     coordString |-> [i \in 1..Len(Get(body).coordinates.items) |->
                         <<Get(body).coordinates.items[i].lng.v,
                           Get(body).coordinates.items[i].lat.v>>],
     access_token |-> Get(mapboxToken),
     geometries |-> "geojson", overview |-> "full", steps |-> "false"]

\* what the provider's Directions API may answer: the fetch fails, or it yields an HTTP
\* status and a body; json is Null when response.json() throws
ProviderRoute ==
    [geometry |-> "LineString", distance |-> 3000, duration |-> 1800,
     legs |-> <<[distance |-> 3000, duration |-> 1800]>>]

ProviderData(code, message, routes) == [code |-> code, message |-> message, routes |-> routes]

ProviderAnswer(ok, status, json) == [failed |-> FALSE, ok |-> ok, status |-> status, json |-> json]

FetchFails == [failed |-> TRUE, ok |-> FALSE, status |-> 0, json |-> Null]

ProviderErrorStatuses == {401, 404, 422, 429, 500}

DirectionsAnswers ==
    {FetchFails, ProviderAnswer(TRUE, 200, Null)}
        \cup { ProviderAnswer(TRUE, 200, Some(ProviderData(Some(c), m, r))) :
                   c \in {"Ok", "NoRoute", "NoSegment"},
                   m \in {Null, Some("No route found")},
                   r \in {Null, Some(<<>>), Some(<<ProviderRoute>>)} }
        \cup { ProviderAnswer(FALSE, st, j) :
                   st \in ProviderErrorStatuses,
                   j \in {Null, Some(ProviderData(Null, Null, Null)),
                          Some(ProviderData(Some("InvalidInput"), Some("Not Authorized"), Null))} }

Or(value, fallback) == IF value # Null THEN value ELSE Some(fallback)

\* an action that answers every provider error with status 500
DirectionsAfterFetchMaskingStatus(answer) ==
    IF answer.failed THEN ErrorResponse(500, "Failed to get directions")
    ELSE IF ~answer.ok
    THEN LET errorData == IF answer.json = Null THEN ProviderData(Null, Null, Null)
                          ELSE Get(answer.json)
         IN  JsonResponse(500, Or(errorData.message, "Directions service error"),
                          Or(errorData.code, "unknown"), Null)
    ELSE IF answer.json = Null THEN ErrorResponse(500, "Failed to get directions")
    ELSE LET data == Get(answer.json)
         IN  IF data.code # Some("Ok") \/ data.routes = Null \/ Len(Get(data.routes)) = 0
             THEN JsonResponse(404, Or(data.message, "No route found"),
                               Or(data.code, "NoRoute"), Null)
             ELSE JsonResponse(200, Null, Some("Ok"), Some(<<Get(data.routes)[1]>>))

\* the action of /api/directions after its call of fetch
DirectionsAfterFetch(answer) ==
    IF answer.failed THEN ErrorResponse(500, "Failed to get directions")
    ELSE IF ~answer.ok
    THEN LET errorData == IF answer.json = Null THEN ProviderData(Null, Null, Null)
                          ELSE Get(answer.json)
         IN  JsonResponse(answer.status, Or(errorData.message, "Directions service error"),
                          Or(errorData.code, "unknown"), Null)
    ELSE IF answer.json = Null THEN ErrorResponse(500, "Failed to get directions")
    ELSE LET data == Get(answer.json)
         IN  IF data.code # Some("Ok") \/ data.routes = Null \/ Len(Get(data.routes)) = 0
             THEN JsonResponse(404, Or(data.message, "No route found"),
                               Or(data.code, "NoRoute"), Null)
             ELSE JsonResponse(200, Null, Some("Ok"), Some(<<Get(data.routes)[1]>>))

\* an endpoint takes its next request once it has answered the one before
ApiIdle == apiRequest = Null \/ apiResponse # Null

ApiAwaits(endpoint) ==
    apiRequest # Null /\ Get(apiRequest).endpoint = endpoint /\ apiResponse = Null

\* action (api.directions), from the request to the response or to the await of fetch
DirectionsAction(mapboxToken, body) ==
    /\ ApiIdle
    /\ apiRequest' = Some([endpoint |-> "directions", mapboxToken |-> mapboxToken,
                           body |-> body])
    /\ LET early == DirectionsBeforeFetch(mapboxToken, body)
       IN  /\ apiResponse' = early
           /\ apiFetches' = (IF early # Null THEN <<>>
                             ELSE <<DirectionsUrl(mapboxToken, body)>>)
    /\ UNCHANGED <<wizardVars, fnVars, srvVars>>

\* action (api.directions), resumed with the provider's answer
DirectionsResumes(answer) ==
    /\ ApiAwaits("directions")
    /\ apiResponse' = Some(DirectionsAfterFetch(answer))
    /\ UNCHANGED <<apiRequest, apiFetches>>
    /\ UNCHANGED <<wizardVars, fnVars, srvVars>>

\* who sends a geocode request: getAuth's userId and the role getUserRole finds for it
UserIds == {Null, Some("user_1")}
Roles == {"user", "author", "admin"}

\* a check that lets every signed-in user create events
AnyRoleCanCreateEvent(role) == TRUE

canUserCreateEvent(role) == role = "admin" \/ role = "author"

\* the form fields address, city, region: missing, empty or filled
FormValues == {Null, Some(""), Some("text")}

Truthy(field) == field # Null /\ field # Some("")

GeocodeForms == { [address |-> a, city |-> c, region |-> Null] : a, c \in FormValues }
                    \cup { [address |-> Some("text"), city |-> Null, region |-> Some("text")] }

\* a feature of the provider's geocoding answer; a feature without a geometry makes
\* the action throw; the provider names every feature
Feature(coordinates, full_address) ==
    [geometry |-> coordinates, full_address |-> full_address, name |-> Some("name")]

GeocodeFeatures ==
    { Feature(g, fa) : g \in {Null, Some(<<-7850, 3570>>)},
                       fa \in {Null, Some("full address")} }

GeocodeAnswers ==
    {FetchFails, ProviderAnswer(TRUE, 200, Null)}
        \cup { ProviderAnswer(FALSE, st, Null) : st \in ProviderErrorStatuses }
        \cup { ProviderAnswer(TRUE, 200, Some(fs)) :
                   fs \in {Null, Some(<<>>)} \cup { Some(<<f>>) : f \in GeocodeFeatures } }

\* queryParts.join(', '), with the state of the 919 area last
searchQuery(form) ==
    <<Get(form.address)>>
        \o (IF Truthy(form.city) THEN <<Get(form.city)>> ELSE <<>>)
        \o (IF Truthy(form.region) THEN <<Get(form.region)>> ELSE <<>>)
        \o <<"NC">>

GeocodeUrl(mapboxToken, form) ==
    [api |-> "https://api.mapbox.com/search/geocode/v6/forward", q |-> searchQuery(form),
     access_token |-> Get(mapboxToken), limit |-> "1",
     proximity |-> "-78.6382,35.7796", country |-> "US"]

\* the action of /api/geocode up to its call of fetch
GeocodeBeforeFetch(userId, role, mapboxToken, form) ==
    IF userId = Null THEN Some(ErrorResponse(401, "Unauthorized"))
    ELSE IF ~canUserCreateEvent(role)
    THEN Some(ErrorResponse(403, "Only authors and admins can use geocoding"))
    ELSE IF ~Truthy(form.address) THEN Some(ErrorResponse(400, "Address is required"))
    ELSE IF mapboxToken = Null THEN Some(ErrorResponse(500, "Mapbox token not configured"))
    ELSE Null

\* an action that passes the status of a provider error on
GeocodeAfterFetchPassingStatus(answer) ==
    IF answer.failed THEN ErrorResponse(500, "Failed to geocode address")
    ELSE IF ~answer.ok THEN ErrorResponse(answer.status, "Geocoding service error")
    ELSE IF answer.json = Null THEN ErrorResponse(500, "Failed to geocode address")
    ELSE LET features == Get(answer.json)
         IN  IF features = Null \/ Len(Get(features)) = 0
             THEN ErrorResponse(404, "Address not found")
             ELSE LET feature == Get(features)[1]
                  IN  IF feature.geometry = Null
                      THEN ErrorResponse(500, "Failed to geocode address")
                      ELSE [JsonResponse(200, Null, Null, Null) EXCEPT
                               !.body = Some([longitude |-> Get(feature.geometry)[1],
                                              latitude |-> Get(feature.geometry)[2],
                                              fullAddress |-> IF feature.full_address # Null
                                                              THEN feature.full_address
                                                              ELSE feature.name])]

\* the action of /api/geocode after its call of fetch
GeocodeAfterFetch(answer) ==
    IF answer.failed THEN ErrorResponse(500, "Failed to geocode address")
    ELSE IF ~answer.ok THEN ErrorResponse(500, "Geocoding service error")
    ELSE IF answer.json = Null THEN ErrorResponse(500, "Failed to geocode address")
    ELSE LET features == Get(answer.json)
         IN  IF features = Null \/ Len(Get(features)) = 0
             THEN ErrorResponse(404, "Address not found")
             ELSE LET feature == Get(features)[1]
                  IN  IF feature.geometry = Null
                      THEN ErrorResponse(500, "Failed to geocode address")
                      ELSE [JsonResponse(200, Null, Null, Null) EXCEPT
                               !.body = Some([longitude |-> Get(feature.geometry)[1],
                                              latitude |-> Get(feature.geometry)[2],
                                              fullAddress |-> IF feature.full_address # Null
                                                              THEN feature.full_address
                                                              ELSE feature.name])]

\* action (api.geocode), from the request to the response or to the await of fetch
GeocodeAction(userId, role, mapboxToken, form) ==
    /\ ApiIdle
    /\ apiRequest' = Some([endpoint |-> "geocode", mapboxToken |-> mapboxToken,
                           body |-> Some([userId |-> userId, role |-> role, form |-> form])])
    /\ LET early == GeocodeBeforeFetch(userId, role, mapboxToken, form)
       IN  /\ apiResponse' = early
           /\ apiFetches' = (IF early # Null THEN <<>> ELSE <<GeocodeUrl(mapboxToken, form)>>)
    /\ UNCHANGED <<wizardVars, fnVars, srvVars>>

\* action (api.geocode), resumed with the provider's answer
GeocodeResumes(answer) ==
    /\ ApiAwaits("geocode")
    /\ apiResponse' = Some(GeocodeAfterFetch(answer))
    /\ UNCHANGED <<apiRequest, apiFetches>>
    /\ UNCHANGED <<wizardVars, fnVars, srvVars>>

\* the endpoints, each answering one request after another
\* the wizard is another program: it stays as mounted
WizardAtRest ==
    /\ events = EventsNone
    /\ budget = [geolocation |-> 0, geocode |-> 0, directions |-> 0, changes |-> 0]

InitApi == Mounted /\ WizardAtRest /\ NoCall /\ ServerAtRest

NextApi ==
    \/ \E mapboxToken \in MapboxTokens, body \in DirectionsBodies :
           DirectionsAction(mapboxToken, body)
    \/ \E answer \in DirectionsAnswers : DirectionsResumes(answer)
    \/ \E userId \in UserIds, role \in Roles, mapboxToken \in MapboxTokens,
          form \in GeocodeForms : GeocodeAction(userId, role, mapboxToken, form)
    \/ \E answer \in GeocodeAnswers : GeocodeResumes(answer)

SpecApi == InitApi /\ [][NextApi]_vars

----------------------------------------------------------------------------
(* The map pages: MapComponent and the map route *)

\* longest event list of a call
MaxEvents == 3

\* an event date as stored: 'YYYY-MM-DD' or an ISO date-time 'YYYY-MM-DDT00:00:00.000Z',
\* on day `day` of the calendar; Null is an event without a date
DateOnly(day) == [form |-> "YYYY-MM-DD", day |-> day]
DateTimeUtc(day) == [form |-> "YYYY-MM-DDT00:00:00.000Z", day |-> day]
Days == {1, 2}
SelectedDates == {DateOnly(d) : d \in Days}

\* new Date(date).toISOString().split('T')[0]
toISODate(date) == DateOnly(date.day)

\* an event as getAllEvents returns it: coordinates, date and city may be missing
StoredEvent(id, coordinates, date, city) ==
    [id |-> id, coordinates |-> coordinates, date |-> date, city |-> city]

StoredEvents ==
    { StoredEvent(1, Some(PB), Some(DateOnly(1)), Some("Raleigh")),
      StoredEvent(2, Some(PC), Some(DateOnly(1)), Some("Apex")),
      StoredEvent(3, Null,     Some(DateOnly(1)), Some("Raleigh")),
      StoredEvent(4, Some(PD), Some(DateOnly(1)), Null),
      StoredEvent(5, Some(PB), Some(DateOnly(2)), Some("Zebulon")),
      StoredEvent(6, Some(PC), Some(DateTimeUtc(1)), Some("Apex")),
      StoredEvent(7, Some(PD), Null,              Some("Raleigh")),
      StoredEvent(8, Some(PB), Some(DateOnly(1)), Some("Zebulon")),
      StoredEvent(9, Null,     Some(DateOnly(1)), Null),
      StoredEvent(10, Some(PA), Some(DateOnly(1)), Some("Apex")) }

\* the place of a date string in ascending order: '' before every date, and
\* 'YYYY-MM-DD' before the date-time of the same day
DateRank(date) ==
    IF date = Null THEN 0
    ELSE IF Get(date).form = "YYYY-MM-DD" THEN 2 * Get(date).day ELSE 2 * Get(date).day + 1

\* getAllEvents: at most MaxEvents different events, ordered by date ascending
StoredEventLists ==
    UNION { { l \in [1..n -> StoredEvents] :
                  \A i, j \in 1..n :
                      i < j => l[i] # l[j] /\ DateRank(l[i].date) <= DateRank(l[j].date) } :
                n \in 0..MaxEvents }

\* the position of the user, or none
UserLocations == {Null, Some(PA), Some(PC)}

\* a.localeCompare(b) over the group names of the model
CityNames == <<"Apex", "Other", "Raleigh", "Unknown Location", "Zebulon">>
localeCompare(a, b) ==
    (CHOOSE i \in 1..Len(CityNames) : CityNames[i] = a)
        - (CHOOSE i \in 1..Len(CityNames) : CityNames[i] = b)

\* Array.prototype.sort(comparefn) over a list of n elements, cmp[i][j] being
\* comparefn(list[i], list[j]): the orders of the positions 1..n the sort may produce
Orders(n) == { o \in [1..n -> 1..n] : \A i, j \in 1..n : i # j => o[i] # o[j] }

\* comparefn is a consistent comparator of the elements (a sort compares no element
\* with itself: the diagonal of cmp is 0)
Consistent(n, cmp) ==
    \A i, j, k \in 1..n :
        /\ i # j => ((cmp[i][j] < 0) <=> (cmp[j][i] > 0))
        /\ (cmp[i][j] = 0 /\ cmp[j][k] = 0) => cmp[i][k] = 0
        /\ (cmp[i][j] < 0 /\ cmp[j][k] < 0) => cmp[i][k] < 0
        /\ (cmp[i][j] = 0 /\ cmp[j][k] < 0) => cmp[i][k] < 0
        /\ (cmp[i][j] < 0 /\ cmp[j][k] = 0) => cmp[i][k] < 0

\* the stable ascending order: position i of the list goes behind every position that
\* compares smaller and every earlier position that compares equal
StableOrder(n, cmp) ==
    LET rank(i) == Cardinality({ j \in 1..n : cmp[j][i] < 0 \/ (cmp[j][i] = 0 /\ j < i) })
    IN  [r \in 1..n |-> CHOOSE i \in 1..n : rank(i) = r - 1]

\* with a consistent comparator the sort is stable; otherwise the order is
\* implementation-defined
SortOrders(n, cmp) == IF Consistent(n, cmp) THEN {StableOrder(n, cmp)} ELSE Orders(n)

Reorder(list, order) == [r \in 1..Len(list) |-> list[order[r]]]

\* MapComponent's calculateDistance: R * c with R = 3959, in thousandths of a mile
HaversineMilliMiles ==
    << <<   0, 2634,  9603,  8947>>,
       <<2634,    0,  8899,  8895>>,
       <<9603, 8899,     0, 17794>>,
       <<8947, 8895, 17794,     0>> >>

calculateDistance(lat1, lon1, lat2, lon2) ==
    HaversineMilliMiles[PointIndex(lat1, lon1)][PointIndex(lat2, lon2)]

\* event.city || catchAll
CityOf(event, catchAll) == IF event.city # Null THEN Get(event.city) ELSE catchAll

\* the reduce / forEach that groups a list by city: the groups in the order their
\* first event comes, each with its events in list order
RECURSIVE GroupByCity(_, _, _)
GroupByCity(list, catchAll, acc) ==
    IF list = <<>> THEN acc
    ELSE LET event == Head(list)
             city == CityOf(event, catchAll)
             known == \E g \in 1..Len(acc) : acc[g].city = city
         IN  GroupByCity(Tail(list), catchAll,
                 IF known
                 THEN [g \in 1..Len(acc) |->
                          IF acc[g].city = city
                          THEN [acc[g] EXCEPT !.events = Append(@, event)]
                          ELSE acc[g]]
                 ELSE Append(acc, [city |-> city, events |-> <<event>>]))

\* MapComponent: "Filter events by selected date"
MapFilteredEvents(evs, selectedDate) ==
    SelectSeq(evs, LAMBDA event :
        event.date # Null /\ toISODate(Get(event.date)) = selectedDate)

\* MapComponent: the comparefn of sortedFilteredEvents
MapSortCompare(userPos, a, b) ==
    IF a.coordinates = Null \/ b.coordinates = Null THEN 0
    ELSE calculateDistance(userPos.lat, userPos.lng,
                           Get(a.coordinates).lat, Get(a.coordinates).lng)
             - calculateDistance(userPos.lat, userPos.lng,
                                 Get(b.coordinates).lat, Get(b.coordinates).lng)

\* MapComponent: "Sort events by proximity to user location", every list the sort of
\* the copy may produce
MapSortedFilteredEvents(filteredEvents, userPos) ==
    IF userPos # Null /\ Len(filteredEvents) > 0
    THEN LET n == Len(filteredEvents)
             cmp == [i \in 1..n |-> [j \in 1..n |->
                        IF i = j THEN 0
                        ELSE MapSortCompare(Get(userPos), filteredEvents[i],
                                            filteredEvents[j])]]
         IN  { Reorder(filteredEvents, o) : o \in SortOrders(Len(filteredEvents), cmp) }
    ELSE {filteredEvents}

\* MapComponent: "Group events by city"
MapGroupedByCity(sortedFilteredEvents) ==
    GroupByCity(sortedFilteredEvents, "Unknown Location", <<>>)

FirstWithCoordinates(group) ==
    LET found == SelectSeq(group.events, LAMBDA e : e.coordinates # Null)
    IN  IF found = <<>> THEN Null ELSE Some(found[1])

\* MapComponent: the comparefn of sortedCities
MapCityCompare(userPos, groupA, groupB) ==
    IF userPos = Null THEN 0
    ELSE LET closestInA == FirstWithCoordinates(groupA)
             closestInB == FirstWithCoordinates(groupB)
         IN  IF closestInA = Null \/ closestInB = Null THEN 0
             ELSE MapSortCompare(Get(userPos), Get(closestInA), Get(closestInB))

\* MapComponent: "Sort cities by proximity of closest event in each city"
MapSortedCities(groupedByCity, userPos) ==
    LET n == Len(groupedByCity)
        cmp == [i \in 1..n |-> [j \in 1..n |->
                   IF i = j THEN 0
                   ELSE MapCityCompare(userPos, groupedByCity[i], groupedByCity[j])]]
    IN  { [r \in 1..Len(groupedByCity) |-> groupedByCity[o[r]].city] :
              o \in SortOrders(Len(groupedByCity), cmp) }

\* MapComponent: "Convert events to GeoJSON for clustering"
geojsonData(filteredEvents) ==
    LET located == SelectSeq(filteredEvents, LAMBDA event : event.coordinates # Null)
    IN  [f \in 1..Len(located) |->
            [id |-> located[f].id,
             coordinates |-> <<Get(located[f].coordinates).lng,
                               Get(located[f].coordinates).lat>>]]

\* map route: the loader keeps the events with coordinates, as EventWithCoords
loader(allEvents) ==
    LET located == SelectSeq(allEvents, LAMBDA e : e.coordinates # Null)
    IN  [i \in 1..Len(located) |->
            [id |-> located[i].id,
             latitude |-> Get(located[i].coordinates).lat,
             longitude |-> Get(located[i].coordinates).lng,
             date |-> located[i].date,
             city |-> located[i].city]]

\* map route: "Filter events to only show events on the selected date"
PageFilteredEvents(evs, filterDate) ==
    SelectSeq(evs, LAMBDA event : event.date = Some(filterDate))

DistanceTo(userPos, event) ==
    getDistance(userPos.lat, userPos.lng, event.latitude, event.longitude)

RECURSIVE SumOfDistances(_, _)
SumOfDistances(userPos, cityEvents) ==
    IF cityEvents = <<>> THEN 0
    ELSE DistanceTo(userPos, Head(cityEvents)) + SumOfDistances(userPos, Tail(cityEvents))

\* map route: the comparefn of sortedCities; the difference of the average distances
\* sum / length has the sign of the cross product
PageCityCompare(userPos, groupA, groupB) ==
    IF groupA.city = "Other" THEN 1
    ELSE IF groupB.city = "Other" THEN -1
    ELSE IF userPos # Null
    THEN SumOfDistances(Get(userPos), groupA.events) * Len(groupB.events)
             - SumOfDistances(Get(userPos), groupB.events) * Len(groupA.events)
    ELSE localeCompare(groupA.city, groupB.city)

\* map route: the events of a city, "sorted by proximity if user location available"
PageSortedGroup(userPos, group) ==
    IF userPos = Null THEN group
    ELSE LET n == Len(group.events)
             cmp == [i \in 1..n |-> [j \in 1..n |->
                        IF i = j THEN 0
                        ELSE DistanceTo(Get(userPos), group.events[i])
                                 - DistanceTo(Get(userPos), group.events[j])]]
         IN  [group EXCEPT !.events = Reorder(@, StableOrder(Len(@), cmp))]

\* map route: "Group filtered events by city for the list display", every list of
\* groups the sort of the city names may produce
eventsByCity(filteredEvents, userPos) ==
    LET grouped == GroupByCity(filteredEvents, "Other", <<>>)
        n == Len(grouped)
        cmp == [i \in 1..n |-> [j \in 1..n |->
                   IF i = j THEN 0 ELSE PageCityCompare(userPos, grouped[i], grouped[j])]]
    IN  { [r \in 1..Len(grouped) |-> PageSortedGroup(userPos, grouped[o[r]])] :
              o \in SortOrders(Len(grouped), cmp) }

\* map route: "one point per unique location", the input of the clustering
RECURSIVE PointsOf(_, _)
PointsOf(list, acc) ==
    IF list = <<>> THEN acc
    ELSE LET event == Head(list)
             key == <<event.longitude, event.latitude>>
             known == \E g \in 1..Len(acc) : acc[g].coordinates = key
         IN  PointsOf(Tail(list),
                 IF known
                 THEN [g \in 1..Len(acc) |->
                          IF acc[g].coordinates = key
                          THEN [acc[g] EXCEPT !.events = Append(@, event)]
                          ELSE acc[g]]
                 ELSE Append(acc, [coordinates |-> key, events |-> <<event>>]))

points(filteredEvents) == PointsOf(filteredEvents, <<>>)

\* one application of a function of the map pages: its arguments, then its outcome
Call(fn, evs, location, date) ==
    [fn |-> fn, events |-> evs, location |-> location, date |-> date]

\* the panel's functions take the events of the map route's loader and a start
\* location; the pages render a list of stored events under a user location and a
\* selected date
Calls ==
    { Call(fn, evs, location, DateOnly(1)) :
          fn \in {"orderEventsByProximity", "findNearestEvents"},
          evs \in StoredEventLists, location \in UserLocations \ {Null} }
    \cup
    { Call(fn, evs, location, date) :
          fn \in {"MapComponent", "MapPage"},
          evs \in StoredEventLists, location \in UserLocations, date \in SelectedDates }

Applying(fn) == call # Null /\ Get(call).fn = fn /\ result = Null

Returns(value) ==
    result' = Some(value) /\ UNCHANGED <<wizardVars, apiVars, call, srvVars>>

\* orderEventsByProximity(start, selectedEvents); `input` is selectedEvents after the
\* call, which works on the copy [...selectedEvents]
ApplyOrderEventsByProximity ==
    /\ Applying("orderEventsByProximity")
    /\ LET selectedEvents == loader(Get(call).events)
       IN  Returns([value |-> orderEventsByProximity(Get(Get(call).location), selectedEvents),
                    input |-> selectedEvents])

\* findNearestEvents(start) over the panel's events; `input` is events after the
\* call, which sorts the array events.map made
ApplyFindNearestEvents ==
    /\ Applying("findNearestEvents")
    /\ LET panelEvents == loader(Get(call).events)
       IN  Returns([value |-> findNearestEvents(panelEvents, Get(Get(call).location),
                                                NearbyCount),
                    input |-> panelEvents])

\* a render of MapComponent: its memoised lists; `input` is filteredEvents after the
\* sort, which works on the copy [...filteredEvents]
RenderMapComponent ==
    /\ Applying("MapComponent")
    /\ LET filteredEvents == MapFilteredEvents(Get(call).events, Get(call).date)
       IN  \E sortedFilteredEvents \in
                  MapSortedFilteredEvents(filteredEvents, Get(call).location) :
               \E sortedCities \in MapSortedCities(MapGroupedByCity(sortedFilteredEvents),
                                                   Get(call).location) :
                   Returns([filteredEvents |-> filteredEvents,
                            sortedFilteredEvents |-> sortedFilteredEvents,
                            groupedByCity |-> MapGroupedByCity(sortedFilteredEvents),
                            sortedCities |-> sortedCities,
                            geojsonData |-> geojsonData(filteredEvents),
                            input |-> filteredEvents])

\* a render of the map route's page over the events of its loader
RenderMapPage ==
    /\ Applying("MapPage")
    /\ LET loaded == loader(Get(call).events)
           filteredEvents == PageFilteredEvents(loaded, Get(call).date)
       IN  \E groups \in eventsByCity(filteredEvents, Get(call).location) :
               Returns([events |-> loaded,
                        filteredEvents |-> filteredEvents,
                        eventsByCity |-> groups,
                        points |-> points(filteredEvents)])

InitMap ==
    /\ Mounted
    /\ WizardAtRest
    /\ call \in {Some(c) : c \in Calls}
    /\ result = Null
    /\ ServerAtRest

NextMap ==
    \/ ApplyOrderEventsByProximity
    \/ ApplyFindNearestEvents
    \/ RenderMapComponent
    \/ RenderMapPage

SpecMap == InitMap /\ [][NextMap]_vars

----------------------------------------------------------------------------
(* The server: roles, permissions and the routes that change events *)

\* the signed-in users: u1 of any role, u2 an author
Accounts == {"u1", "u2"}
\* getAuth(args).userId: null for a visitor
Callers == {Null} \cup {Some(u) : u \in Accounts}

\* publicMetadata.role of a user: absent, or one of the three roles
StoredRoles == {Null, Some("user"), Some("author"), Some("admin")}

\* the Cookie header of a request: absent, or its `key=value` pairs in order
Cookie(key, value) == <<key, value>>
CookieHeaders ==
    { Null,
      Some(<<Cookie("simulatedRole", "user")>>),
      Some(<<Cookie("simulatedRole", "author")>>),
      Some(<<Cookie("simulatedRole", "admin")>>),
      Some(<<Cookie("theme", "dark"), Cookie("simulatedRole", "author")>>),
      Some(<<Cookie("simulatedRole", "author"), Cookie("simulatedRole", "superuser")>>) }

\* cookies[key] after the reduce over the pairs: the last pair of the key
RECURSIVE CookieValue(_, _)
CookieValue(pairs, key) ==
    IF pairs = <<>> THEN Null
    ELSE IF pairs[Len(pairs)][1] = key THEN Some(pairs[Len(pairs)][2])
    ELSE CookieValue(SubSeq(pairs, 1, Len(pairs) - 1), key)

\* a role lookup that takes the simulated role of the cookie from every user
getUserRoleTrustingCookie(roles, userId, cookieHeader) ==
    LET actualRole == IF roles[userId] # Null THEN Get(roles[userId]) ELSE "user"
    IN  IF cookieHeader # Null
        THEN LET simulatedRole == CookieValue(Get(cookieHeader), "simulatedRole")
             IN  IF simulatedRole # Null /\ Get(simulatedRole) \in {"user", "author"}
                 THEN Get(simulatedRole)
                 ELSE actualRole
        ELSE actualRole

getUserRole(roles, userId, cookieHeader) ==
    LET actualRole == IF roles[userId] # Null THEN Get(roles[userId]) ELSE "user"
    IN  IF actualRole = "admin" /\ cookieHeader # Null
        THEN LET simulatedRole == CookieValue(Get(cookieHeader), "simulatedRole")
             IN  IF simulatedRole # Null /\ Get(simulatedRole) \in {"user", "author"}
                 THEN Get(simulatedRole)
                 ELSE actualRole
        ELSE actualRole

isAdmin(roles, userId, cookieHeader) == getUserRole(roles, userId, cookieHeader) = "admin"

\* getEventById: the stored event of the id, or none
getEventById(stored, eventId) ==
    IF \E e \in stored : e.id = eventId THEN Some(CHOOSE e \in stored : e.id = eventId)
    ELSE Null

canUserModifyEvent(store, userId, eventId, cookieHeader) ==
    IF isAdmin(store.roles, userId, cookieHeader) THEN TRUE
    ELSE IF getUserRole(store.roles, userId, cookieHeader) = "author"
    THEN LET event == getEventById(store.events, eventId)
         IN  IF event = Null THEN FALSE ELSE Get(event).createdBy = Some(userId)
    ELSE FALSE

canUserCreate(roles, userId, cookieHeader) ==
    canUserCreateEvent(getUserRole(roles, userId, cookieHeader))

canUserManageAuthors(roles, userId, cookieHeader) == isAdmin(roles, userId, cookieHeader)

\* an event row: who created it, its title, and what the cleanup reads
EventRow(id, createdBy, title, recurrence, date, endDate, imageUrl) ==
    [id |-> id, createdBy |-> createdBy, title |-> title,
     recurrence |-> recurrence, date |-> date, endDate |-> endDate, imageUrl |-> imageUrl]

\* the events of the routes: one of each author and a seeded one without creator
ManagedEvents ==
    { EventRow("e1", Some("u1"), "as created", Null, DateOnly(2), Null, Null),
      EventRow("e2", Some("u2"), "as created", Null, DateOnly(2), Null, Null),
      EventRow("e3", Null, "as created", Null, DateOnly(2), Null, Null) }

\* params.id and the ids of the bulk form: a stored event or none
EventIds == {"e1", "e2", "e3", "e9"}
BulkForms == {Null} \cup {Some(ids) : ids \in {<<"e1">>, <<"e2">>, <<"e2", "e3">>, <<"e9", "e1">>}}

Database(stored, roles, votes, applications) ==
    [events |-> stored, roles |-> roles, votes |-> votes, applications |-> applications]

\* prisma.event.update: the row of the id gets the submitted fields; createdBy is
\* not among them
updateEvent(stored, eventId) ==
    {IF e.id = eventId THEN [e EXCEPT !.title = "as edited"] ELSE e : e \in stored}

\* deleteEvent: the row of the id is gone; a missing row makes it return false
deleteEvent(stored, eventId) == {e \in stored : e.id # eventId}

RECURSIVE DeleteEach(_, _)
DeleteEach(stored, ids) ==
    IF ids = <<>> THEN stored ELSE DeleteEach(deleteEvent(stored, Head(ids)), Tail(ids))

\* what the server has served last: the request and its response
Served(route, userId, cookieHeader, ids, response) ==
    <<[route |-> route, userId |-> userId, cookieHeader |-> cookieHeader, ids |-> ids,
       response |-> response]>>

\* action (events.$id.edit): the permission, the validation of the form, the update
EditEventAction(userId, cookieHeader, eventId, valid) ==
    /\ db # Null
    /\ LET store == Get(db)
           response ==
               IF userId = Null THEN "redirect /"
               ELSE IF ~canUserModifyEvent(store, Get(userId), eventId, cookieHeader)
               THEN "no permission"
               ELSE IF ~valid THEN "error"
               ELSE IF getEventById(store.events, eventId) = Null THEN "throws"
               ELSE "redirect /my-events"
       IN  /\ db' = (IF response = "redirect /my-events"
                     THEN Some([store EXCEPT !.events = updateEvent(@, eventId)])
                     ELSE db)
           /\ tasks' = Served("edit", userId, cookieHeader, <<eventId>>, response)
    /\ UNCHANGED <<wizardVars, apiVars, fnVars>>

\* action (events.$id.delete)
DeleteEventAction(userId, cookieHeader, eventId) ==
    /\ db # Null
    /\ LET store == Get(db)
           response ==
               IF userId = Null THEN "redirect /"
               ELSE IF ~canUserModifyEvent(store, Get(userId), eventId, cookieHeader)
               THEN "403"
               ELSE "redirect /my-events"
       IN  /\ db' = (IF response = "redirect /my-events"
                     THEN Some([store EXCEPT !.events = deleteEvent(@, eventId)])
                     ELSE db)
           /\ tasks' = Served("delete", userId, cookieHeader, <<eventId>>, response)
    /\ UNCHANGED <<wizardVars, apiVars, fnVars>>

\* action (my-events): the bulk delete of the ids of the form
BulkDeleteAction(userId, cookieHeader, eventIds) ==
    /\ db # Null
    /\ LET store == Get(db)
           response ==
               IF userId = Null THEN "redirect /"
               ELSE IF eventIds = Null THEN "No events selected"
               ELSE "redirect /my-events"
       IN  /\ db' = (IF response = "redirect /my-events"
                     THEN Some([store EXCEPT !.events = DeleteEach(@, Get(eventIds))])
                     ELSE db)
           /\ tasks' = Served("my-events", userId, cookieHeader,
                              IF eventIds = Null THEN <<>> ELSE Get(eventIds), response)
    /\ UNCHANGED <<wizardVars, apiVars, fnVars>>

\* loader (events): the role of the signed-in user goes to the page
EventsLoader(userId, cookieHeader) ==
    /\ db # Null
    /\ tasks' = Served("events", userId, cookieHeader, <<>>,
                       IF userId = Null THEN "null"
                       ELSE getUserRole(Get(db).roles, Get(userId), cookieHeader))
    /\ UNCHANGED <<wizardVars, apiVars, fnVars, db>>

\* loader (submit): the form is for those who can create events
SubmitLoader(userId, cookieHeader) ==
    /\ db # Null
    /\ tasks' = Served("submit", userId, cookieHeader, <<>>,
                       IF userId = Null THEN "redirect /"
                       ELSE IF ~canUserCreate(Get(db).roles, Get(userId), cookieHeader) THEN "403"
                       ELSE "null")
    /\ UNCHANGED <<wizardVars, apiVars, fnVars, db>>

\* the pages and the endpoints are other programs
PagesAtRest == Mounted /\ WizardAtRest /\ NoCall

InitEvents ==
    /\ PagesAtRest
    /\ db \in {Some(Database(ManagedEvents, [u1 |-> role, u2 |-> Some("author")], {}, {})) :
                   role \in StoredRoles}
    /\ tasks = <<>>

NextEvents ==
    \/ \E userId \in Callers, cookieHeader \in CookieHeaders, eventId \in EventIds,
          valid \in BOOLEAN : EditEventAction(userId, cookieHeader, eventId, valid)
    \/ \E userId \in Callers, cookieHeader \in CookieHeaders, eventId \in EventIds :
           DeleteEventAction(userId, cookieHeader, eventId)
    \/ \E userId \in Callers, cookieHeader \in CookieHeaders, eventIds \in BulkForms :
           BulkDeleteAction(userId, cookieHeader, eventIds)
    \/ \E userId \in Callers, cookieHeader \in CookieHeaders : EventsLoader(userId, cookieHeader)
    \/ \E userId \in Callers, cookieHeader \in CookieHeaders : SubmitLoader(userId, cookieHeader)

SpecEvents == InitEvents /\ [][NextEvents]_vars

----------------------------------------------------------------------------
(* The server: the cleanup of expired events *)

\* process.env.CRON_SECRET and the authorization headers of the requests
CRON_SECRET == "s3cret"
AuthorizationHeaders == {Null, Some("Bearer s3cret"), Some("Bearer guess"), Some("s3cret")}
\* `Bearer ${process.env.CRON_SECRET}`
Bearer(secret) == "Bearer " \o secret

\* the days of the clock, as toLocaleDateString('en-CA', America/New_York) names them
CronDays == {1, 2, 3}

\* the events of the cleanup: with and without recurrence, end date and image,
\* dated in both forms
CleanupEvents ==
    { EventRow("c1", Some("u1"), "as created", Null, DateOnly(1), Null, Null),
      EventRow("c2", Some("u1"), "as created", Null, DateTimeUtc(2), Null, Some("blob c2")),
      EventRow("c3", Some("u1"), "as created", Null, DateOnly(1), Some(DateOnly(3)), Null),
      EventRow("c4", Some("u2"), "as created", Some("weekly"), DateOnly(1), Null, Some("blob c4")),
      EventRow("c5", Some("u2"), "as created", Some("weekly"), DateOnly(1), Some(DateOnly(2)), Null),
      EventRow("c6", Some("u2"), "as created", Some("daily"), DateOnly(1), Some(DateTimeUtc(1)),
               Some("blob c6")),
      EventRow("c7", Null, "as created", Some("monthly"), DateOnly(2), Some(DateOnly(3)), Null) }

\* { lt: today } on a text column: the strings compared
Lt(date, today) == DateRank(Some(date)) < DateRank(Some(today))

\* a where clause that takes the events of today with those before
whereClauseUpToToday(e, today) ==
    \/ e.recurrence = Null /\ ~Lt(today, e.date)
    \/ e.recurrence # Null /\ e.endDate # Null /\ ~Lt(today, Get(e.endDate))

whereClause(e, today) ==
    \/ e.recurrence = Null /\ Lt(e.date, today)
    \/ e.recurrence # Null /\ e.endDate # Null /\ Lt(Get(e.endDate), today)

\* deleteBlobImage(url) resolves when the blob store answers the deletion and
\* rejects when it does not
deleteBlobImage(url, blobStoreAnswers) == blobStoreAnswers

\* a run of the cleanup: the header, the day of the clock, what it answered
CronRun(authHeader, today, response, deleted) ==
    <<[route |-> "cron", authHeader |-> authHeader, today |-> today, response |-> response,
       deleted |-> deleted]>>

\* loader (api.cron.cleanup): the blob store answers the deletion of the images
\* or fails it, which ends the run before the events are deleted
CronCleanup(authHeader, day, blobsDeleted) ==
    /\ db # Null
    /\ LET store == Get(db)
           today == DateOnly(day)
           expiredEvents == {e \in store.events : whereClause(e, today)}
           imageUrls == {e.imageUrl : e \in {x \in expiredEvents : x.imageUrl # Null}}
       IN  IF authHeader # Some(Bearer(CRON_SECRET))
           THEN /\ tasks' = CronRun(authHeader, day, "401", 0)
                /\ db' = db
           ELSE IF ~(\A url \in imageUrls : deleteBlobImage(url, blobsDeleted))
           THEN /\ tasks' = CronRun(authHeader, day, "throws", 0)
                /\ db' = db
           ELSE /\ tasks' = CronRun(authHeader, day, "success", Cardinality(expiredEvents))
                /\ db' = Some([store EXCEPT !.events = @ \ expiredEvents])
    /\ UNCHANGED <<wizardVars, apiVars, fnVars>>

InitCron ==
    /\ PagesAtRest
    /\ db \in {Some(Database(stored, [u1 |-> Some("author"), u2 |-> Some("author")], {}, {})) :
                   stored \in SUBSET CleanupEvents}
    /\ tasks = <<>>

NextCron ==
    \E authHeader \in AuthorizationHeaders, day \in CronDays, blobsDeleted \in BOOLEAN :
        CronCleanup(authHeader, day, blobsDeleted)

SpecCron == InitCron /\ [][NextCron]_vars

----------------------------------------------------------------------------
(* The server: votes *)

\* the calls of /api/vote the model follows
MaxVoteRequests == 3

\* a row of the votes: (userId, eventId) is unique
Vote(id, userId, eventId) == [id |-> id, userId |-> userId, eventId |-> eventId]

\* the events that are voted for
VotedEventIds == {"e1", "e2"}

\* a call of /api/vote: where it is in toggleVote, the vote it has found, and
\* what it has answered
VoteRequest(userId, eventId, pc, existingVote, response) ==
    [route |-> "vote", userId |-> userId, eventId |-> eventId, pc |-> pc,
     existingVote |-> existingVote, response |-> response]

\* prisma.vote.findUnique({ where: { userId_eventId } })
findUniqueVote(votes, userId, eventId) ==
    IF \E v \in votes : v.userId = userId /\ v.eventId = eventId
    THEN Some(CHOOSE v \in votes : v.userId = userId /\ v.eventId = eventId)
    ELSE Null

\* action (api.vote), up to the call of toggleVote: 401 without a user, 400
\* without an event id
SubmitVote(userId, eventId) ==
    /\ db # Null
    /\ Len(tasks) < MaxVoteRequests
    /\ tasks' = Append(tasks,
                       IF userId = Null THEN VoteRequest(userId, eventId, "done", Null, "401")
                       ELSE IF eventId = Null THEN VoteRequest(userId, eventId, "done", Null, "400")
                       ELSE VoteRequest(userId, eventId, "find", Null, "pending"))
    /\ UNCHANGED <<wizardVars, apiVars, fnVars, db>>

\* toggleVote, the first await: the vote of the user for the event is looked up
FindExistingVote(i) ==
    /\ db # Null
    /\ i \in 1..Len(tasks)
    /\ tasks[i].pc = "find"
    /\ tasks' = [tasks EXCEPT ![i].pc = "write",
                              ![i].existingVote =
                                  findUniqueVote(Get(db).votes, Get(tasks[i].userId),
                                                 Get(tasks[i].eventId))]
    /\ UNCHANGED <<wizardVars, apiVars, fnVars, db>>

\* toggleVote, the second await: the vote found is deleted by its id, or a vote
\* is created; the delete of a missing row and the create of a second vote of the
\* user for the event throw, and the action does not catch
WriteVote(i) ==
    /\ db # Null
    /\ i \in 1..Len(tasks)
    /\ tasks[i].pc = "write"
    /\ LET store == Get(db)
           request == tasks[i]
       IN  IF request.existingVote # Null
           THEN IF Get(request.existingVote) \in store.votes
                THEN /\ db' = Some([store EXCEPT !.votes = @ \ {Get(request.existingVote)}])
                     /\ tasks' = [tasks EXCEPT ![i].pc = "done", ![i].response = "false"]
                ELSE /\ db' = db
                     /\ tasks' = [tasks EXCEPT ![i].pc = "done", ![i].response = "throws"]
           ELSE IF findUniqueVote(store.votes, Get(request.userId), Get(request.eventId)) = Null
                THEN /\ db' = Some([store EXCEPT
                                       !.votes = @ \cup {Vote(i, Get(request.userId),
                                                              Get(request.eventId))}])
                     /\ tasks' = [tasks EXCEPT ![i].pc = "done", ![i].response = "true"]
                ELSE /\ db' = db
                     /\ tasks' = [tasks EXCEPT ![i].pc = "done", ![i].response = "throws"]
    /\ UNCHANGED <<wizardVars, apiVars, fnVars>>

InitVotes ==
    /\ PagesAtRest
    /\ db \in {Some(Database(ManagedEvents, [u1 |-> Some("user"), u2 |-> Some("author")],
                             votes, {})) :
                   votes \in {{}, {Vote(0, "u1", "e1")}}}
    /\ tasks = <<>>

NextVotes ==
    \/ \E userId \in Callers, eventId \in {Null} \cup {Some(e) : e \in VotedEventIds} :
           SubmitVote(userId, eventId)
    \/ \E i \in 1..MaxVoteRequests : FindExistingVote(i)
    \/ \E i \in 1..MaxVoteRequests : WriteVote(i)

SpecVotes == InitVotes /\ [][NextVotes]_vars

----------------------------------------------------------------------------
(* The server: author applications *)

\* the requests of the admin page the model follows
MaxAdminRequests == 2

\* a row of the author applications
Application(id, userId, status) == [id |-> id, userId |-> userId, status |-> status]

\* the forms of the admin page: the intent and the application id
AdminIntents == {"approve", "reject", "export"}
ApplicationIds == {Null, Some("a1"), Some("a2"), Some("a9")}

\* a request of the admin page: where it is in approveApplication, the applicant
\* of the application it has updated, and what it has answered
AdminRequest(userId, intent, applicationId, applicant, pc, response) ==
    [route |-> "admin", userId |-> userId, intent |-> intent, applicationId |-> applicationId,
     applicant |-> applicant, pc |-> pc, response |-> response]

\* prisma.authorApplication.update({ where: { id }, data: { status } })
updateApplication(applications, id, status) ==
    {IF app.id = id THEN [app EXCEPT !.status = status] ELSE app : app \in applications}

\* action (admin), with rejectApplication and the first await of
\* approveApplication: the application is approved before the role is updated;
\* an update of a missing row throws and the action answers its error
AdminAction(userId, intent, applicationId) ==
    /\ db # Null
    /\ Len(tasks) < MaxAdminRequests
    /\ LET store == Get(db)
           known == applicationId # Null
                        /\ \E app \in store.applications : app.id = Get(applicationId)
           answer(response) ==
               AdminRequest(userId, intent, applicationId, Null, "done", response)
       IN  IF userId = Null
           THEN tasks' = Append(tasks, answer("redirect /")) /\ db' = db
           ELSE IF ~canUserManageAuthors(store.roles, Get(userId), Null)
           THEN tasks' = Append(tasks, answer("Unauthorized - Admin access required")) /\ db' = db
           ELSE IF applicationId = Null
           THEN tasks' = Append(tasks, answer("Application ID is required")) /\ db' = db
           ELSE IF intent \notin {"approve", "reject"}
           THEN tasks' = Append(tasks, answer("Invalid action")) /\ db' = db
           ELSE IF ~known
           THEN tasks' = Append(tasks, answer("Failed to process application")) /\ db' = db
           ELSE IF intent = "reject"
           THEN /\ tasks' = Append(tasks, answer("Application rejected"))
                /\ db' = Some([store EXCEPT !.applications =
                                   updateApplication(@, Get(applicationId), "rejected")])
           ELSE /\ tasks' = Append(tasks,
                                   AdminRequest(userId, intent, applicationId,
                                                Some((CHOOSE app \in store.applications :
                                                          app.id = Get(applicationId)).userId),
                                                "updateUserRole", "pending"))
                /\ db' = Some([store EXCEPT !.applications =
                                   updateApplication(@, Get(applicationId), "approved")])
    /\ UNCHANGED <<wizardVars, apiVars, fnVars>>

\* approveApplication, the second await: updateUserRole sets the role of the
\* applicant at the identity provider, or throws; the action catches and answers
UpdateUserRole(i, updated) ==
    /\ db # Null
    /\ i \in 1..Len(tasks)
    /\ tasks[i].pc = "updateUserRole"
    /\ IF updated
       THEN /\ db' = Some([Get(db) EXCEPT !.roles[Get(tasks[i].applicant)] = Some("author")])
            /\ tasks' = [tasks EXCEPT ![i].pc = "done",
                                      ![i].response = "Application approved successfully"]
       ELSE /\ db' = db
            /\ tasks' = [tasks EXCEPT ![i].pc = "done",
                                      ![i].response = "Failed to process application"]
    /\ UNCHANGED <<wizardVars, apiVars, fnVars>>

InitApprove ==
    /\ PagesAtRest
    /\ db \in {Some(Database(ManagedEvents,
                             [u1 |-> role, u2 |-> Some("user"), u3 |-> Some("admin")], {},
                             {Application("a1", "u1", "pending"),
                              Application("a2", "u2", "pending")})) :
                   role \in {Null, Some("user")}}
    /\ tasks = <<>>

NextApprove ==
    \/ \E userId \in {Null, Some("u2"), Some("u3")}, intent \in AdminIntents,
          applicationId \in ApplicationIds : AdminAction(userId, intent, applicationId)
    \/ \E i \in 1..MaxAdminRequests, updated \in BOOLEAN : UpdateUserRole(i, updated)

SpecApprove == InitApprove /\ [][NextApprove]_vars

----------------------------------------------------------------------------
(* Properties of the wizard *)

DistanceFrom(loc, e) == getDistance(loc.lat, loc.lng, e.latitude, e.longitude)

SameEvent(a, b) == a.id = b.id /\ a.latitude = b.latitude /\ a.longitude = b.longitude

\* pool holds the count events of evs nearest to loc, each once
NearestOf(pool, evs, loc, count) ==
    /\ Len(pool) = Min(count, Len(evs))
    /\ Cardinality(IdsOf(pool)) = Len(pool)
    /\ \A i \in DOMAIN pool : \E j \in DOMAIN evs : SameEvent(pool[i], evs[j])
    /\ \A i \in DOMAIN pool : \A j \in DOMAIN evs :
           evs[j].id \notin IdsOf(pool) => DistanceFrom(loc, pool[i]) <= DistanceFrom(loc, evs[j])

EntersSelectingEvents(loc) ==
    /\ step' = "events"
    /\ startLocation' = Some(loc)
    /\ NearestOf(nearbyEvents', events, loc, 10)
    /\ selectedEventIds' = IdsOf(nearbyEvents')

\* C1: from ChoosingLocation, a geolocation or geocode success moves the wizard to
\* SelectingEvents with the resolved coordinate as start, the min(10, number of events)
\* events of the event set nearest to it as candidate pool, and all of them selected.
C1_SuccessPreselectsNearest ==
    [][step = "location" =>
        /\ \A i \in DOMAIN geoReqs : \A position \in GeoPositions :
               GeolocationSuccess(i, position) => EntersSelectingEvents(position)
        /\ \A i \in DOMAIN geocodeReqs : \A loc \in GeocodeResults :
               GeocodeOk(i, [longitude |-> loc.lng, latitude |-> loc.lat])
                   => EntersSelectingEvents(loc)]_vars

\* C2: the wizard advances from SelectingEvents to ChoosingTransport exactly when at
\* least 2 events are selected (with fewer the Next step is not possible), and in
\* ChoosingTransport at least 2 events are selected.
C2_AdvanceNeedsTwoSelected ==
    /\ step = "transport" => selectedCount >= 2
    /\ isOpen /\ step = "events" => (ENABLED EventsNext <=> selectedCount >= 2)

C2_Advanced == last = "eventsNext" /\ step = "transport" /\ selectedCount = 2

\* the result of request i of a kind arrives
GeolocationSettles(i) ==
    \/ \E position \in GeoPositions : GeolocationSuccess(i, position)
    \/ \E code \in GeoErrorCodes : GeolocationError(i, code)

GeocodeSettles(i) ==
    \/ \E loc \in GeocodeResults : GeocodeOk(i, [longitude |-> loc.lng, latitude |-> loc.lat])
    \/ \E error \in GeocodeErrors : GeocodeNotOk(i, error)
    \/ GeocodeThrows(i)

DirectionsSettles(i) ==
    \/ \E k \in RouteAlternatives : DirectionsOk(i, k)
    \/ \E error \in DirectionsErrors : DirectionsNotOk(i, error)
    \/ DirectionsThrows(i)

StaleResultArrives ==
    \/ \E i \in DOMAIN geoReqs : Stale(geoReqs[i], "geolocation") /\ GeolocationSettles(i)
    \/ \E i \in DOMAIN geocodeReqs : Stale(geocodeReqs[i], "geocode") /\ GeocodeSettles(i)
    \/ \E i \in DOMAIN dirReqs : Stale(dirReqs[i], "directions") /\ DirectionsSettles(i)

\* C3: a result that arrives after its context has changed is discarded: it changes
\* neither the step, the candidate pool, the selected set, the start coordinate nor the
\* stored route, and shows no error.
C3_StaleResultDiscarded ==
    [][StaleResultArrives =>
        UNCHANGED <<step, nearbyEvents, selectedEventIds, startLocation, routeSummary,
                    currentRouteEvents, currentRouteSummary, locationError, routeError>>]_vars

\* C4: whenever the event set changes to one with other event ids, from any step, the
\* wizard is reset: step ChoosingLocation, no candidate pool, no selection, no route
\* summary.
C4_EventsChangeResets ==
    [][\A newEvents \in EventLists :
          ChangeEvents(newEvents) /\ IdsOf(newEvents) # IdsOf(events)
              => /\ step' = "location"
                 /\ nearbyEvents' = <<>>
                 /\ selectedEventIds' = {}
                 /\ routeSummary' = Null]_vars

\* the route held for the panel is over events of a former event set
RouteOfFormerEvents ==
    currentRouteEvents # <<>> /\ ~(IdsOf(currentRouteEvents) \subseteq IdsOf(events))

\* C5: a route does not survive an event-set change: once the event set has changed
\* while a route existed, the wizard (closed and reopened, too) is not in ShowingRoute
\* again until a directions request succeeds.
C5_RouteDoesNotSurviveEventsChange ==
    [][RouteOfFormerEvents /\ step # "route" /\ step' = "route"
          => \E i \in DOMAIN dirReqs : \E k \in RouteAlternatives : DirectionsOk(i, k)]_vars

\* C6: closing the panel changes no wizard state, and a panel closed in ShowingRoute
\* is, when reopened with the event set unchanged meanwhile, in ShowingRoute with the
\* same route summary and the same ordered event list.
C6_CloseAndReopenKeepRoute ==
    [][/\ handleClose => UNCHANGED <<panelVars, currentRouteEvents, currentRouteSummary>>
       /\ (OpenPanel /\ closedView # Null /\ ~Get(closedView).eventsChanged)
              => /\ step' = "route"
                 /\ ShownSummary' = Get(closedView).summary
                 /\ ShownRouteEvents' = Get(closedView).routeEvents]_vars

\* C7: Clear route leaves the wizard in ChoosingLocation with nothing selected, no
\* candidate pool, no route summary and no error message, and with the last
\* geolocation coordinate obtained as start (none when there was none).
C7_ClearRouteResets ==
    last = "handleClearRoute" =>
        /\ step = "location"
        /\ selectedEventIds = {}
        /\ nearbyEvents = <<>>
        /\ routeSummary = Null /\ currentRouteSummary = Null /\ currentRouteEvents = <<>>
        /\ locationError = Null /\ routeError = Null
        /\ startLocation = (IF userLocation = Null THEN Null
                            ELSE Some([lng |-> Get(userLocation).longitude,
                                       lat |-> Get(userLocation).latitude]))
        /\ userLocation # Null => Get(startLocation) \in GeoPositions

C7_ClearedWithGeolocation ==
    last = "handleClearRoute" /\ step = "location" /\ startLocation = Some(PA)

\* C8: from ShowingRoute the user can take the Modify transition (to SelectingEvents,
\* keeping start coordinate, candidate pool and selection).
C8_ModifyAvailable ==
    RouteStepRendered =>
        /\ ENABLED handleModifyRoute
        /\ "handleModifyRoute" \in RouteStepButtons

DirectionsFailureShown(message) ==
    /\ step' = "transport"
    /\ routeError' = Some(message)
    /\ UNCHANGED <<selectedEventIds, nearbyEvents, startLocation, transportMode>>

\* C9: a directions request that fails while the wizard is in ChoosingTransport leaves
\* it there, shows the service's message or the generic one, and leaves selection,
\* candidate pool, start coordinate and transport mode unchanged.
C9_DirectionsFailureKeepsState ==
    [][step = "transport" =>
        \A i \in DOMAIN dirReqs :
            /\ \A error \in DirectionsErrors :
                   DirectionsNotOk(i, error) =>
                       DirectionsFailureShown(IF error = Null THEN "Failed to generate route"
                                              ELSE Get(error))
            /\ DirectionsThrows(i) => DirectionsFailureShown("Failed to generate route")]_vars

C9_FailureShown ==
    /\ last = "directionsNotOk" /\ step = "transport"
    /\ routeError = Some("No route found") /\ selectedCount >= 2

\* C10: at most one request of each kind is in flight, and while one is, its pending
\* flag is set and its trigger cannot be used.
C10_OneRequestPerKind ==
    /\ Len(geoReqs) <= 1 /\ Len(geocodeReqs) <= 1 /\ Len(dirReqs) <= 1
    /\ geoReqs # <<>> =>
           /\ isGettingLocation
           /\ ~ENABLED (\E hasGeolocation \in BOOLEAN : handleUseMyLocation(hasGeolocation))
    /\ geocodeReqs # <<>> => isGeocodingAddress /\ ~ENABLED handleLookupAddress
    /\ dirReqs # <<>> => isGeneratingRoute /\ ~ENABLED handleGenerateRoute

C10_TwoKindsInFlight ==
    /\ isOpen /\ step = "transport" /\ GenerateRouteDisabled
    /\ dirReqs # <<>> /\ geoReqs # <<>>

----------------------------------------------------------------------------
(* Properties of the endpoints *)

IsNumber(x) == typeof(x) = "number"

\* the coordinates of a directions request break a constraint: fewer than 2 or more than
\* 25 of them, a lng or lat that is not a number, or one out of range
InvalidCoordinates(body) ==
    LET c == Get(body).coordinates
    IN  \/ c.t # "array"
        \/ Len(c.items) < 2
        \/ Len(c.items) > 25
        \/ \E i \in 1..Len(c.items) :
               \/ ~IsNumber(c.items[i].lng) \/ ~IsNumber(c.items[i].lat)
               \/ c.items[i].lng.v < -180 \/ c.items[i].lng.v > 180
               \/ c.items[i].lat.v < -90 \/ c.items[i].lat.v > 90

InvalidProfile(body) ==
    Get(body).profile \notin {Some("walking"), Some("cycling"), Some("driving")}

DirectionsRequested == apiRequest # Null /\ Get(apiRequest).endpoint = "directions"

GeocodeRequested == apiRequest # Null /\ Get(apiRequest).endpoint = "geocode"

\* C11: the directions endpoint makes no call to the provider for a request whose
\* coordinates are invalid (count outside 2..25, a non-numeric lng or lat, or a value
\* out of range).
C11_InvalidRequestNeverFetched ==
    (/\ DirectionsRequested
     /\ Get(apiRequest).body # Null
     /\ InvalidCoordinates(Get(apiRequest).body)) => apiFetches = <<>>

\* a configured server rejected 26 coordinates whose last one has latitude 95
C11_TooManyRejected ==
    /\ DirectionsRequested
    /\ Get(apiRequest).mapboxToken # Null
    /\ Get(apiRequest).body # Null
    /\ ~InvalidProfile(Get(apiRequest).body)
    /\ Get(Get(apiRequest).body).coordinates.t = "array"
    /\ Len(Get(Get(apiRequest).body).coordinates.items) = 26
    /\ Get(Get(apiRequest).body).coordinates.items[26].lat = JsNumber(95)
    /\ apiResponse # Null /\ Get(apiResponse).status = 400
    /\ apiFetches = <<>>

\* C12: every directions request that breaks an input constraint (coordinates or
\* profile) is answered with status 400, with or without a configured token.
C12_InvalidRequestIs400 ==
    (/\ DirectionsRequested
     /\ Get(apiRequest).body # Null
     /\ InvalidCoordinates(Get(apiRequest).body) \/ InvalidProfile(Get(apiRequest).body))
        => apiResponse # Null /\ Get(apiResponse).status = 400

NoRouteAnswer(answer) ==
    /\ ~answer.failed /\ answer.ok /\ answer.json # Null
    /\ \/ Get(answer.json).code # Some("Ok")
       \/ Get(answer.json).routes \in {Null, Some(<<>>)}

ProviderHttpError(answer) == ~answer.failed /\ ~answer.ok

\* C13: for a valid request, a provider answer that is HTTP-successful but has a code
\* other than Ok or no routes yields 404; a provider HTTP error yields the provider's
\* status, with the provider's message and code when it sent them.
C13_NoRouteDistinctFromProviderError ==
    [][\A answer \in DirectionsAnswers :
          DirectionsResumes(answer) =>
              /\ NoRouteAnswer(answer) => Get(apiResponse').status = 404
              /\ ProviderHttpError(answer) =>
                    /\ Get(apiResponse').status = answer.status
                    /\ (answer.json # Null /\ Get(answer.json).message # Null)
                           => Get(apiResponse').error = Get(answer.json).message
                    /\ (answer.json # Null /\ Get(answer.json).code # Null)
                           => Get(apiResponse').code = Get(answer.json).code]_vars

\* the provider's error 422 with its message and code was passed on
C13_ProviderErrorPassedOn ==
    /\ DirectionsRequested
    /\ apiFetches # <<>>
    /\ apiResponse = Some(JsonResponse(422, Some("Not Authorized"), Some("InvalidInput"), Null))

GeocodeAnswered(statuses) ==
    (GeocodeRequested /\ apiResponse # Null) =>
        IF Get(apiResponse).error # Null
        THEN Get(apiResponse).status \in statuses
        ELSE /\ Get(apiResponse).body # Null
             /\ Get(Get(apiResponse).body).fullAddress # Null
             /\ Get(Get(apiResponse).body).longitude \in Int
             /\ Get(Get(apiResponse).body).latitude \in Int

\* C14 as claimed: every error response of the geocode endpoint has status 400, 404 or
\* 500, and every other response carries a coordinate and a full-address string.
C14_GeocodeStatuses == GeocodeAnswered({400, 404, 500})

\* C14 amended: every error response of the geocode endpoint has status 401, 403, 400,
\* 404 or 500, and every other response carries a coordinate and a full-address string.
C14_GeocodeStatusesWithAuth == GeocodeAnswered({400, 401, 403, 404, 500})

\* a signed-in user who is neither author nor admin was refused
C14_Forbidden ==
    /\ GeocodeRequested
    /\ Get(Get(apiRequest).body).form.address = Some("text")
    /\ apiResponse # Null /\ Get(apiResponse).status = 403

----------------------------------------------------------------------------
(* Properties of the wizard's error handling *)

\* C15: a geolocation failure (permission denied, position unavailable, timeout) in
\* ChoosingLocation leaves the wizard there with the pending flag cleared, shows a
\* message that no other of the three kinds shows, changes no other state of the
\* wizard, and leaves the address lookup usable.
C15_GeolocationFailureRecoverable ==
    [][\A i \in DOMAIN geoReqs : \A code \in GeoErrorCodes :
          (step = "location" /\ GeolocationError(i, code)) =>
              /\ step' = "location"
              /\ ~isGettingLocation'
              /\ locationError' # Null
              /\ \A other \in GeoErrorCodes \ {code} :
                     locationError' # Some(GeolocationErrorMessage(other))
              /\ UNCHANGED <<parentVars, startLocation, addressInput, isGeocodingAddress,
                             nearbyEvents, selectedEventIds, transportMode,
                             isGeneratingRoute, routeError, routeSummary>>
              /\ (~isGeocodingAddress /\ Trim(addressInput) # <<>>)
                     => ~FindLocationDisabled']_vars

\* the geolocation request timed out while an address was typed in
C15_TimedOut ==
    /\ isOpen /\ step = "location" /\ last = "geolocationError"
    /\ locationError = Some(GeolocationErrorMessage(TIMEOUT))
    /\ ~isGettingLocation
    /\ ~FindLocationDisabled

----------------------------------------------------------------------------
(* Properties of the route ordering and of the map pages *)

Applied(fn) == call # Null /\ Get(call).fn = fn /\ result # Null

IdsIn(list) == {list[i].id : i \in 1..Len(list)}

\* the position the k-th stop of `ordered` is chosen from
PositionBefore(start, ordered, k) ==
    IF k = 1 THEN start
    ELSE [lng |-> ordered[k - 1].longitude, lat |-> ordered[k - 1].latitude]

\* the positions of `input` not visited before the k-th stop of `ordered`
Unvisited(input, ordered, k) ==
    {i \in 1..Len(input) : input[i].id \notin {ordered[j].id : j \in 1..(k - 1)}}

StopDistance(start, ordered, k, event) ==
    getDistance(PositionBefore(start, ordered, k).lat, PositionBefore(start, ordered, k).lng,
                event.latitude, event.longitude)

\* input[i] is a nearest unvisited stop at step k, and the first of the nearest ones
FirstNearest(start, input, ordered, k, i) ==
    /\ i \in Unvisited(input, ordered, k)
    /\ \A j \in Unvisited(input, ordered, k) :
           /\ StopDistance(start, ordered, k, input[i])
                  <= StopDistance(start, ordered, k, input[j])
           /\ StopDistance(start, ordered, k, input[i])
                  = StopDistance(start, ordered, k, input[j]) => i <= j

\* C16: the route order is a permutation of the selected events in which every stop
\* is a nearest one to the previous stop (the start, for the first) among the stops
\* not yet visited, and the first of them in input order when several are nearest
C16_GreedyNearestNeighbour ==
    Applied("orderEventsByProximity") =>
        LET start == Get(Get(call).location)
            input == Get(result).input
            ordered == Get(result).value
        IN  /\ Len(ordered) = Len(input)
            /\ IdsIn(ordered) = IdsIn(input)
            /\ input = loader(Get(call).events)
            /\ \A k \in 1..Len(ordered) :
                   \E i \in 1..Len(input) :
                       input[i] = ordered[k] /\ FirstNearest(start, input, ordered, k, i)

\* three stops ordered, two of them at the same distance from the start
C16_TieBrokenByInputOrder ==
    /\ Applied("orderEventsByProximity")
    /\ Len(Get(result).value) = MaxEvents
    /\ \E i, j \in 1..Len(Get(result).input) :
           /\ i < j
           /\ Get(result).input[i] = Get(result).value[1]
           /\ StopDistance(Get(Get(call).location), Get(result).value, 1, Get(result).input[i])
                  = StopDistance(Get(Get(call).location), Get(result).value, 1,
                                 Get(result).input[j])

PlaceIn(list, id) == CHOOSE i \in 1..Len(list) : list[i].id = id

\* distance of a stored event with coordinates to the user's location
MilesFrom(userPos, event) ==
    calculateDistance(userPos.lat, userPos.lng,
                      Get(event.coordinates).lat, Get(event.coordinates).lng)

\* the panel's ranking: the nearest `count` events of `input`, ascending by distance,
\* those at equal distance in input order
PanelRanked(ranked, input, start, count) ==
    /\ Len(ranked) = Min(count, Len(input))
    /\ IdsIn(ranked) \subseteq IdsIn(input)
    /\ \A i, j \in 1..Len(ranked) :
           i < j =>
               /\ ranked[i].distance <= ranked[j].distance
               /\ ranked[i].distance = ranked[j].distance
                      => PlaceIn(input, ranked[i].id) < PlaceIn(input, ranked[j].id)
    /\ \A i \in 1..Len(ranked) :
           ranked[i].distance = DistanceTo(start, input[PlaceIn(input, ranked[i].id)])

\* the list's ranking: the events of `input`, those with coordinates ascending by
\* distance, and those at equal distance in input order
ListRanked(ranked, input, userPos) ==
    /\ Len(ranked) = Len(input)
    /\ IdsIn(ranked) = IdsIn(input)
    /\ \A i, j \in 1..Len(ranked) :
           (i < j /\ ranked[i].coordinates # Null /\ ranked[j].coordinates # Null) =>
               /\ MilesFrom(userPos, ranked[i]) <= MilesFrom(userPos, ranked[j])
               /\ MilesFrom(userPos, ranked[i]) = MilesFrom(userPos, ranked[j])
                      => PlaceIn(input, ranked[i].id) < PlaceIn(input, ranked[j].id)

\* C17: proximity ranking returns the events in ascending order of distance to the
\* reference coordinate, events at equal distance in input order, nothing for no
\* events, and leaves its input as it was: for the panel's findNearestEvents and for
\* the sorted event list of MapComponent
C17_ProximityRanking ==
    /\ Applied("findNearestEvents") =>
           /\ PanelRanked(Get(result).value, Get(result).input,
                          Get(Get(call).location), NearbyCount)
           /\ Get(result).input = loader(Get(call).events)
    /\ (Applied("MapComponent") /\ Get(call).location # Null) =>
           /\ ListRanked(Get(result).sortedFilteredEvents, Get(result).filteredEvents,
                         Get(Get(call).location))
           /\ Get(result).input = MapFilteredEvents(Get(call).events, Get(call).date)

\* the ids of the events of the call that have no coordinates
Unlocated ==
    {Get(call).events[i].id :
         i \in {j \in 1..Len(Get(call).events) : Get(call).events[j].coordinates = Null}}

IdsInGroups(groups) == UNION {IdsIn(groups[g].events) : g \in 1..Len(groups)}

\* C18: an event without coordinates is in no clustering input (geojsonData of
\* MapComponent, points of the map route) and in no proximity-ordered output (the
\* sorted event list and the city groups of MapComponent under a user location, the
\* city groups of the map route, the panel's nearest events and route order)
C18_UnlocatedEventsExcluded ==
    /\ Applied("MapComponent") =>
           /\ IdsIn(Get(result).geojsonData) \cap Unlocated = {}
           /\ Get(call).location # Null =>
                  /\ IdsIn(Get(result).sortedFilteredEvents) \cap Unlocated = {}
                  /\ IdsInGroups(Get(result).groupedByCity) \cap Unlocated = {}
    /\ Applied("MapPage") =>
           /\ IdsInGroups(Get(result).points) \cap Unlocated = {}
           /\ IdsInGroups(Get(result).eventsByCity) \cap Unlocated = {}
    /\ Applied("findNearestEvents") => IdsIn(Get(result).value) \cap Unlocated = {}
    /\ Applied("orderEventsByProximity") => IdsIn(Get(result).value) \cap Unlocated = {}

\* the ids of the events of `list` whose date, normalised to YYYY-MM-DD, is `date`
DatedOn(list, date) ==
    {list[i].id :
         i \in {j \in 1..Len(list) :
                    list[j].date # Null /\ toISODate(Get(list[j].date)) = date}}

\* C19: under a selected date D the filtered events, of MapComponent and of the map
\* route, are the events whose date normalised to YYYY-MM-DD is D, in the order of
\* the event list; an event without a date is never among them
C19_FilteredByNormalisedDate ==
    /\ Applied("MapComponent") =>
           /\ IdsIn(Get(result).filteredEvents) = DatedOn(Get(call).events, Get(call).date)
           /\ \A i \in 1..Len(Get(result).filteredEvents) :
                  Get(result).filteredEvents[i].date # Null
    /\ Applied("MapPage") =>
           /\ IdsIn(Get(result).filteredEvents) = DatedOn(Get(result).events, Get(call).date)
           /\ \A i \in 1..Len(Get(result).filteredEvents) :
                  Get(result).filteredEvents[i].date # Null

\* the groups partition `list`: every event of it is in exactly one group, the groups
\* are not empty and have different names
Partitions(groups, list) ==
    /\ \A i \in 1..Len(list) :
           Cardinality({<<g, k>> \in {<<h, l>> \in (1..Len(groups)) \X (1..Len(list)) :
                                          l <= Len(groups[h].events)} :
                            groups[g].events[k] = list[i]}) = 1
    /\ IdsInGroups(groups) = IdsIn(list)
    /\ \A g \in 1..Len(groups) : groups[g].events # <<>>
    /\ \A g, h \in 1..Len(groups) : groups[g].city = groups[h].city => g = h

\* every event is in the group of its city, and in the catch-all group without one
GroupedByOwnCity(groups, catchAll) ==
    \A g \in 1..Len(groups) :
        \A k \in 1..Len(groups[g].events) :
            groups[g].city = CityOf(groups[g].events[k], catchAll)

\* the catch-all group, if there is one, is the last of the group names
CatchAllLast(cities, catchAll) ==
    \A g \in 1..Len(cities) : cities[g] = catchAll => g = Len(cities)

\* C20: the city groups partition the filtered events, the events without a city are
\* all in the catch-all group, and the catch-all group is the last of the groups,
\* with or without a user location: in MapComponent and in the map route
C20_GroupedByCityCatchAllLast ==
    /\ Applied("MapComponent") =>
           /\ Partitions(Get(result).groupedByCity, Get(result).filteredEvents)
           /\ GroupedByOwnCity(Get(result).groupedByCity, "Unknown Location")
           /\ Len(Get(result).sortedCities) = Len(Get(result).groupedByCity)
           /\ {Get(result).sortedCities[g] : g \in 1..Len(Get(result).sortedCities)}
                  = {Get(result).groupedByCity[g].city :
                         g \in 1..Len(Get(result).groupedByCity)}
           /\ CatchAllLast(Get(result).sortedCities, "Unknown Location")
    /\ Applied("MapPage") =>
           /\ Partitions(Get(result).eventsByCity, Get(result).filteredEvents)
           /\ GroupedByOwnCity(Get(result).eventsByCity, "Other")
           /\ CatchAllLast([g \in 1..Len(Get(result).eventsByCity) |->
                               Get(result).eventsByCity[g].city], "Other")

\* the smallest of a non-empty set of numbers
Least(numbers) == CHOOSE x \in numbers : \A y \in numbers : x <= y

\* C21: under a user location the named city groups, of MapComponent and of the map
\* route, come in ascending order of the distance from the user to the nearest
\* member of each group
C21_CitiesByNearestMember ==
    /\ (Applied("MapComponent") /\ Get(call).location # Null) =>
           LET groups == Get(result).groupedByCity
               cities == Get(result).sortedCities
               located(city) ==
                   {e \in StoredEvents :
                        /\ e.coordinates # Null
                        /\ \E g \in 1..Len(groups) :
                               /\ groups[g].city = city
                               /\ \E k \in 1..Len(groups[g].events) : groups[g].events[k] = e}
               nearest(city) ==
                   Least({MilesFrom(Get(Get(call).location), e) : e \in located(city)})
           IN  \A g, h \in 1..Len(cities) :
                   (/\ g < h
                    /\ cities[g] # "Unknown Location" /\ cities[h] # "Unknown Location"
                    /\ located(cities[g]) # {} /\ located(cities[h]) # {})
                       => nearest(cities[g]) <= nearest(cities[h])
    /\ (Applied("MapPage") /\ Get(call).location # Null) =>
           LET groups == Get(result).eventsByCity
               nearest(g) ==
                   Least({DistanceTo(Get(Get(call).location), groups[g].events[k]) :
                              k \in 1..Len(groups[g].events)})
           IN  \A g, h \in 1..Len(groups) :
                   (g < h /\ groups[g].city # "Other" /\ groups[h].city # "Other")
                       => nearest(g) <= nearest(h)

----------------------------------------------------------------------------
(* Properties of the wizard's requests *)

DirectionsIssued == Len(dirReqs') = Len(dirReqs) + 1

\* the request handleGenerateRoute has just issued
IssuedDirections == dirReqs'[Len(dirReqs')]

\* C24: a directions request of the wizard carries the start coordinate and then one
\* coordinate for each selected event, in greedy nearest-neighbour order from the
\* start, 3 to 11 coordinates in all, with the chosen transport mode
C24_DirectionsRequestShape ==
    [][DirectionsIssued =>
           LET coordinates == IssuedDirections.coordinates
               ordered == IssuedDirections.ordered
               selected == SelectedOf(nearbyEvents, selectedEventIds)
           IN  /\ Len(coordinates) >= 3 /\ Len(coordinates) <= NearbyCount + 1
               /\ Len(coordinates) >= 2 /\ Len(coordinates) <= 25
               /\ coordinates[1] = Get(startLocation)
               /\ Len(coordinates) = 1 + selectedCount
               /\ IdsIn(ordered) = selectedEventIds
               /\ \A k \in 1..Len(ordered) :
                      /\ coordinates[k + 1] = [lng |-> ordered[k].longitude,
                                               lat |-> ordered[k].latitude]
                      /\ \E i \in 1..Len(selected) :
                             /\ selected[i] = ordered[k]
                             /\ FirstNearest(Get(startLocation), selected, ordered, k, i)
               /\ IssuedDirections.profile = transportMode]_vars

\* a request for a route through all ten nearby events is in flight
C24_TenStopsRequested ==
    \E i \in DOMAIN dirReqs : Len(dirReqs[i].coordinates) = NearbyCount + 1

\* C25: the geocode endpoint calls the geocoding provider only for a signed-in caller
\* whose effective role is author or admin; a caller who is not signed in is answered
\* 401 and a caller of role user 403, both without a call to the provider
C25_GeocodeOnlyForAuthors ==
    GeocodeRequested =>
        LET caller == Get(Get(apiRequest).body)
        IN  /\ apiFetches # <<>> =>
                   caller.userId # Null /\ caller.role \in {"author", "admin"}
            /\ caller.userId = Null =>
                   /\ apiFetches = <<>>
                   /\ apiResponse # Null /\ Get(apiResponse).status = 401
            /\ (caller.userId # Null /\ caller.role = "user") =>
                   /\ apiFetches = <<>>
                   /\ apiResponse # Null /\ Get(apiResponse).status = 403

\* a caller who is not signed in sent an address to a configured server and was
\* refused without a call to the provider
C25_Unauthorized ==
    /\ GeocodeRequested
    /\ Get(Get(apiRequest).body).userId = Null
    /\ Get(Get(apiRequest).body).form.address = Some("text")
    /\ Get(apiRequest).mapboxToken # Null
    /\ apiFetches = <<>>
    /\ apiResponse # Null /\ Get(apiResponse).status = 401

\* a request of the kind has just settled
Settles(reqs) == Len(reqs') = Len(reqs) - 1

\* C26: a geolocation, geocode or directions request that settles, with a result, an
\* error answer or an exception, clears the pending flag of its kind, and a pending
\* flag is set only while a request of its kind is in flight; so when every request
\* settles, no flag stays set and no trigger stays disabled
C26_PendingFlagsCleared ==
    /\ [][/\ Settles(geoReqs) => ~isGettingLocation'
          /\ Settles(geocodeReqs) => ~isGeocodingAddress'
          /\ Settles(dirReqs) => ~isGeneratingRoute']_vars
    /\ [](/\ isGettingLocation => geoReqs # <<>>
          /\ isGeocodingAddress => geocodeReqs # <<>>
          /\ isGeneratingRoute => dirReqs # <<>>)

\* the address lookup threw and is not pending any more
C26_LookupThrewAndCleared ==
    /\ last = "geocodeThrows"
    /\ ~isGeocodingAddress
    /\ ~FindLocationDisabled

\* C27: whenever the panel is open on the route step, a route summary is there to show,
\* the panel's own or the one of the rendering component, so that the route view with
\* its Clear Route and Done buttons is rendered
C27_RouteStepHasSummary ==
    (isOpen /\ step = "route") =>
        /\ currentRouteSummary # Null \/ routeSummary # Null
        /\ RouteStepRendered

\* the panel shows on the route step a route that only the rendering component holds
C27_ShowsRouteOfParent ==
    /\ isOpen /\ step = "route"
    /\ routeSummary = Null /\ currentRouteSummary # Null
    /\ RouteStepRendered

----------------------------------------------------------------------------
(* Properties of the roles and of the routes that change events *)

\* the request the step has served
ServedNow == tasks'[1]

\* publicMetadata.role of the user, 'user' when there is none
ActualRole(userId) ==
    IF Get(db).roles[userId] = Null THEN "user" ELSE Get(db).roles[userId][1]

\* C22: no request of a signed-in user who is not an admin changes or removes
\* an event that another user created, whatever the route
C22_OnlyAdminOrCreatorModifies ==
    [][(db # Null /\ tasks' # <<>> /\ ServedNow.userId # Null
        /\ ActualRole(ServedNow.userId[1]) # "admin")
       => \A e \in Get(db).events :
              (e.createdBy # Null /\ e.createdBy # ServedNow.userId) => e \in Get(db').events]_vars

\* the event of the request, as stored before the request
CreatedByCaller(request) ==
    \E e \in Get(db).events : e.id = request.ids[1] /\ e.createdBy = request.userId

\* C23: for a user who is not an admin the role given to the page and the
\* decisions of the submit, edit and delete routes are those of the stored role, whatever
\* the cookie; an admin gets another role only when the cookie names 'user' or
\* 'author', and then that role
C23_CookieOnlyForAdmins ==
    [][(db # Null /\ tasks' # <<>> /\ ServedNow.userId # Null)
       => LET request == ServedNow
              actual == ActualRole(request.userId[1])
          IN  /\ (actual # "admin" /\ request.route = "events") => request.response = actual
              /\ (actual # "admin" /\ request.route = "edit")
                     => ((request.response # "no permission")
                            <=> (actual = "author" /\ CreatedByCaller(request)))
              /\ (actual # "admin" /\ request.route = "delete")
                     => ((request.response # "403")
                            <=> (actual = "author" /\ CreatedByCaller(request)))
              /\ (actual # "admin" /\ request.route = "submit")
                     => ((request.response # "403") <=> (actual = "author"))
              /\ (actual = "admin" /\ request.route = "events")
                     => \/ request.response = "admin"
                        \/ /\ request.response \in {"user", "author"}
                           /\ request.cookieHeader # Null
                           /\ CookieValue(request.cookieHeader[1], "simulatedRole")
                                  = Some(request.response)]_vars

\* a user of role 'user' sent simulatedRole=author with the delete of an own
\* event and was refused
C23_CookieOfUserIgnored ==
    /\ db # Null /\ tasks # <<>>
    /\ Get(db).roles["u1"] = Some("user")
    /\ tasks[1].userId = Some("u1")
    /\ tasks[1].cookieHeader = Some(<<Cookie("simulatedRole", "author")>>)
    /\ tasks[1].route = "delete" /\ tasks[1].ids = <<"e1">>
    /\ tasks[1].response = "403"

----------------------------------------------------------------------------
(* Properties of the cleanup *)

\* the event is over on the day: not recurring and dated before it, or
\* recurring with an end date before it
ExpiredOn(e, day) ==
    \/ e.recurrence = Null /\ e.date.day < day
    \/ e.recurrence # Null /\ e.endDate # Null /\ e.endDate[1].day < day

----------------------------------------------------------------------------
(* Properties of the votes *)

\* no call of toggleVote has thrown
NoVoteCallThrows == \A i \in 1..Len(tasks) : tasks[i].response # "throws"

\* a user has at most one vote for an event
AtMostOneVote ==
    db # Null =>
        \A v, w \in Get(db).votes : (v.userId = w.userId /\ v.eventId = w.eventId) => v = w

\* the call that ends in the step answers true when it has created the vote of
\* its user for its event and false when it has removed it
AnswersWhatItDid(i) ==
    (i <= Len(tasks) /\ tasks[i].pc = "write" /\ tasks'[i].pc = "done")
        => LET mine(votes) == {v \in votes : v.userId = tasks[i].userId[1]
                                              /\ v.eventId = tasks[i].eventId[1]}
           IN  /\ tasks'[i].response = "true"
                      <=> (mine(Get(db).votes) = {} /\ mine(Get(db').votes) # {})
               /\ tasks'[i].response = "false"
                      <=> (mine(Get(db).votes) # {} /\ mine(Get(db').votes) = {})

\* C28: whatever the interleaving of the toggleVote calls, no call throws, a
\* user has at most one vote for an event, and a call answers true exactly when
\* it created the vote and false exactly when it removed it
C28_ToggleVoteUnderInterleaving ==
    /\ [](NoVoteCallThrows /\ AtMostOneVote)
    /\ [][\A i \in 1..MaxVoteRequests : AnswersWhatItDid(i)]_vars

----------------------------------------------------------------------------
(* Properties of the author applications *)

\* an approval of the application is between its two awaits
BeingApproved(app) ==
    \E i \in 1..Len(tasks) : tasks[i].pc = "updateUserRole" /\ tasks[i].applicationId = Some(app.id)

\* C29: once the calls of approveApplication have ended, with or without a
\* failure of the role update, an application is 'approved' only if the role of
\* its applicant is author
C29_ApprovedOnlyWithAuthorRole ==
    db # Null =>
        \A app \in Get(db).applications :
            (app.status = "approved" /\ ~BeingApproved(app))
                => Get(db).roles[app.userId] = Some("author")

====
